---- MODULE Spec2Model ----
(***************************************************************************)
(* Model of the concurrent array family of nykxyz/code:                    *)
(*   src/ds/lock/thread_safe_lock.h           SpinSharedMutex, Null locks  *)
(*   src/ds/array/include/thread_safe_array.h ThreadSafeArray<T, Mutex>    *)
(*   src/ds/array/src/main.cpp                the multi-threaded drivers   *)
(* and of the striped array those drivers use (StripedThreadSafeArray),    *)
(* whose definition is not among these files: it is modelled after its     *)
(* design description.                                                     *)
(***************************************************************************)
EXTENDS Integers, Sequences, FiniteSets, TLC

(***************************************************************************)
(* Bounds of the model.                                                    *)
(***************************************************************************)
\* Threads that use one SpinSharedMutex directly.
NumLockThreads == 3

LockThreads == 1..NumLockThreads

\* Threads that call into ThreadSafeArray.
NumArrThreads == 2

ArrThreads == 1..NumArrThreads

\* Element values (T is size_t in the drivers).
NumValues == 2

Values == 1..NumValues

\* Longest sequence an array is grown to in the single-threaded runs.
MaxLen == 3

\* Values each worker of test_push_back pushes (n / threads).
PerThread == 2

\* batch_size of batch_push_back_test; each worker inserts one batch.
BatchSize == 2

\* Calls made, by all threads together, in the scenario of concurrent swaps.
MaxCalls == 3

\* acquisitions of the SpinSharedMutex begun in a bounded execution
MaxAcquire == 2

\* Stripes (segments) of the striped array; StripedSharedMutex's NumStripes.
NumStripes == 2

Stripes == 0..(NumStripes - 1)

\* The two ThreadSafeArray objects (swap needs two).
Arrays == {1, 2}

(***************************************************************************)
(* The 32-bit state word of SpinSharedMutex.  Bit 31 is the writer bit,    *)
(* bits 0..30 the reader count.  The word is kept as the pair              *)
(* (w, r) = (bit 31, bits 0..30), i.e. the value w * 2^31 + r, and the     *)
(* arithmetic below is uint32 arithmetic (mod 2^32) on that pair.          *)
(***************************************************************************)
READER_MASK == 2147483647

Word(wbit, cnt) == [w |-> wbit, r |-> cnt]

WriterMaskUnset == Word(0, 0)

WRITER_MASK == Word(1, 0)

Zero == Word(0, 0)

\* x & WRITER_MASK, as a condition
HasWriterNever(x) == FALSE

HasWriter(x) == x.w = 1

\* x + 1 (mod 2^32): the carry out of bit 30 flips bit 31
IncNothing(x) == x

Inc(x) == IF x.r = READER_MASK THEN Word(1 - x.w, 0) ELSE Word(x.w, x.r + 1)

\* x - 1 (mod 2^32): the borrow from bit 31
Dec(x) == IF x.r = 0 THEN Word(1 - x.w, READER_MASK) ELSE Word(x.w, x.r - 1)

VARIABLES
    state_,     \* SpinSharedMutex::state_
    lpc,        \* lpc[t]: where thread t is in its current SpinSharedMutex call
    lcur,       \* lcur[t]: the local `expected` (lock, try_lock) / `current` (shared);
                \* a local is dead once its call returns and is then kept at 0
    lspin,      \* lspin[t]: the counter i of lock()'s inner for loop
    lret,       \* lret[t]: what t's last try_lock / try_lock_shared returned
    strategy,   \* the Mutex template argument of ThreadSafeArray<T, Mutex>
    data_,      \* data_[a]: ThreadSafeArray::data_ of array a
    mutex_,     \* mutex_[a]: ThreadSafeArray::mutex_ of array a
    apc,        \* apc[t]: where thread t is in its current ThreadSafeArray call
    acall,      \* acall[t]: the call thread t is in (or has last completed)
    aown,       \* aown[t]: what t's UniqueLock / SharedLock object owns
    aret,       \* aret[t]: what t's last completed call returned or threw
    pre,        \* pre[t]: data_ of the called array as it was when t's current
                \* call constructed its lock object; once the call has returned,
                \* <<>>, or if it returned a handle into data_, the data_ the
                \* handle was made for
    ref,        \* the unsynchronized ordered sequence given the same operations
    refret,     \* what the unsynchronized sequence returned for the last one
    loop,       \* loop[t]: the loop variable i of driver thread t's worker
    retry,      \* retry[t]: t's current try_push_back retries one that
                \* returned false
    snap,       \* the vector a caller keeps of what to_vector() returned
    stripes_,   \* stripes_[s]: StripedSharedMutex::stripes_[s], a lock word
    segments_,  \* segments_[s]: the elements of segment s of the striped array
    counts_,    \* counts_[s]: the atomic element count of segment s
    counter_,   \* the segment-selection counter
    cached_,    \* the cached total size
    dirty_,     \* the dirty flag of the cached total size
    spc,        \* spc[t]: where thread t is in its current striped-array call
    scall,      \* scall[t]: that call and its locals
    sret,       \* sret[t]: what t's last completed striped-array call returned
    acquired    \* how many acquisitions of the SpinSharedMutex have been begun
                \* by threads that make a bounded number of them

lockVars == <<state_, lpc, lcur, lspin, lret>>

arrVars ==
    <<strategy, data_, mutex_, apc, acall, aown, aret, pre, ref, refret, loop, retry,
      snap>>

stripedVars ==
    <<stripes_, segments_, counts_, counter_, cached_, dirty_, spc, scall, sret>>

vars == <<lockVars, arrVars, stripedVars, acquired>>

\* what the actions of SpinSharedMutex used on its own leave alone
nonLockVars == <<arrVars, stripedVars, acquired>>

\* what the actions of ThreadSafeArray leave alone
nonArrVars == <<lockVars, stripedVars, acquired>>

\* for (int i = 0; i < 16; ++i)
SpinLimit == 16

(***************************************************************************)
(* ThreadSafeArray: calls and results.                                     *)
(* A call is [op, arr, i, j, v, pos, k]: the operation, the array, the     *)
(* index arguments (index / first, last), the value arguments as a         *)
(* sequence (one value, or the range of insert_range), and for an append   *)
(* in progress the end position the vector had when the append began (-1   *)
(* before that) and how many elements have been put in place so far.       *)
(* A result is [kind, val] with val a sequence                             *)
(* of numbers: <<>> for void, <<x>> for an element, a size or an index,    *)
(* <<1>> / <<0>> for true / false, the elements for a vector.              *)
(***************************************************************************)
Call(op, a, i, j, v) ==
    [op |-> op, arr |-> a, i |-> i, j |-> j, v |-> v, pos |-> -1, k |-> 0]

NoCall == Call("none", 1, 0, 0, <<>>)

Result(kind, val) == [kind |-> kind, val |-> val]

NoResult == Result("none", <<>>)

Void == Result("void", <<>>)

Bool(b) == Result("bool", IF b THEN <<1>> ELSE <<0>>)

\* std::out_of_range thrown by std::vector::at
OutOfRange == Result("out_of_range", <<>>)

\* ThreadSafeArray() = default: both arrays empty, their mutexes free, and
\* every thread outside any call.
ArrFresh ==
    /\ data_ = [a \in Arrays |-> <<>>]
    /\ mutex_ = [a \in Arrays |-> Zero]
    /\ apc = [t \in ArrThreads |-> "idle"]
    /\ acall = [t \in ArrThreads |-> NoCall]
    /\ aown = [t \in ArrThreads |-> "none"]
    /\ aret = [t \in ArrThreads |-> NoResult]
    /\ pre = [t \in ArrThreads |-> <<>>]
    /\ ref = <<>>
    /\ refret = NoResult
    /\ loop = [t \in ArrThreads |-> 0]
    /\ retry = [t \in ArrThreads |-> FALSE]
    /\ snap = <<>>

\* The arrays are not used.
ArrIdle == strategy = "spin" /\ ArrFresh

(***************************************************************************)
(* The striped array: calls and construction.  A call is                   *)
(* [op, i, v, seg, off, snap, k, acc]: the operation, its index argument,  *)
(* its value arguments, the segment it works on and the offset in it, the  *)
(* counts it has read so far, how many steps of a loop it has made, and    *)
(* the elements it has visited.                                            *)
(***************************************************************************)
SCall(op, i, v) ==
    [op |-> op, i |-> i, v |-> v, seg |-> 0, off |-> 0, snap |-> <<>>, k |-> 0,
     acc |-> <<>>]

NoSCall == SCall("none", 0, <<>>)

\* The striped array after construction: N empty segments with free locks
\* and zero counts, the selection counter at 0, the cached size 0 and
\* clean, every thread outside any call.
StripedFresh ==
    /\ stripes_ = [s \in Stripes |-> Word(0, 0)]
    /\ segments_ = [s \in Stripes |-> <<>>]
    /\ counts_ = [s \in Stripes |-> 0]
    /\ counter_ = 0
    /\ cached_ = 0
    /\ dirty_ = FALSE
    /\ spc = [t \in ArrThreads |-> "idle"]
    /\ scall = [t \in ArrThreads |-> NoSCall]
    /\ sret = [t \in ArrThreads |-> NoResult]

\* The comparison of compare_exchange_weak / compare_exchange_strong: the
\* exchange happens only when the whole word equals `expected`.
CasMatchesWriterBit(actual, expected) == actual.w = expected.w

CasMatches(actual, expected) == actual = expected

(***************************************************************************)
(* SpinSharedMutex, one action per atomic access.                          *)
(***************************************************************************)
LockIdle ==
    /\ state_ = Zero
    /\ lpc = [t \in LockThreads |-> "idle"]
    /\ lcur = [t \in LockThreads |-> Zero]
    /\ lspin = [t \in LockThreads |-> 0]
    /\ lret = [t \in LockThreads |-> "none"]
    /\ acquired = 0

LockInit == LockIdle /\ ArrIdle /\ StripedFresh

\* A thread that holds nothing calls one of the four acquiring operations.
\* lock() and try_lock() start with `uint32_t expected = 0`.
LockCall(t) ==
    /\ lpc[t] = "idle"
    /\ UNCHANGED nonLockVars
    /\ \E op \in {"lock_cas", "try_lock", "ls_load", "tls_load"} :
          lpc' = [lpc EXCEPT ![t] = op]
    /\ lcur' = [lcur EXCEPT ![t] = Zero]
    /\ lspin' = [lspin EXCEPT ![t] = 0]
    /\ lret' = [lret EXCEPT ![t] = "none"]
    /\ UNCHANGED state_

\* lock(): compare_exchange_weak(expected, WRITER_MASK).  It succeeds only on
\* state_ == expected and may fail spuriously; a failure enters the loop
\* body, which resets expected to 0 and starts the inner for loop.
LockCasOk(t) ==
    /\ lpc[t] = "lock_cas"
    /\ UNCHANGED nonLockVars
    /\ CasMatches(state_, lcur[t])
    /\ state_' = WRITER_MASK
    /\ lpc' = [lpc EXCEPT ![t] = "held_x"]
    /\ UNCHANGED <<lcur, lspin, lret>>

LockCas(t) ==
    /\ lpc[t] = "lock_cas"
    /\ \/ LockCasOk(t)
       \/ /\ lpc' = [lpc EXCEPT ![t] = "lock_spin"]
          /\ lcur' = [lcur EXCEPT ![t] = Zero]
          /\ lspin' = [lspin EXCEPT ![t] = 0]
          /\ UNCHANGED <<state_, lret>>
          /\ UNCHANGED nonLockVars

\* lock(): one iteration of the inner for loop: leave it when state_ reads
\* 0, else yield and count; after SpinLimit iterations retry the CAS.
LockSpin(t) ==
    /\ lpc[t] = "lock_spin"
    /\ UNCHANGED nonLockVars
    /\ IF state_ = Zero \/ lspin[t] + 1 = SpinLimit
          THEN /\ lpc' = [lpc EXCEPT ![t] = "lock_cas"]
               /\ lspin' = [lspin EXCEPT ![t] = 0]
          ELSE /\ lspin' = [lspin EXCEPT ![t] = lspin[t] + 1]
               /\ UNCHANGED lpc
    /\ UNCHANGED <<state_, lcur, lret>>

\* unlock(): state_.store(0)
Unlock(t) ==
    /\ lpc[t] = "held_x"
    /\ UNCHANGED nonLockVars
    /\ state_' = Zero
    /\ lpc' = [lpc EXCEPT ![t] = "idle"]
    /\ UNCHANGED <<lcur, lspin, lret>>

\* try_lock(): compare_exchange_strong(expected = 0, WRITER_MASK)
TryLock(t) ==
    /\ lpc[t] = "try_lock"
    /\ UNCHANGED nonLockVars
    /\ IF CasMatches(state_, lcur[t])
          THEN /\ state_' = WRITER_MASK
               /\ lpc' = [lpc EXCEPT ![t] = "held_x"]
               /\ lret' = [lret EXCEPT ![t] = "true"]
               /\ UNCHANGED lcur
          ELSE /\ lpc' = [lpc EXCEPT ![t] = "idle"]
               /\ lret' = [lret EXCEPT ![t] = "false"]
               /\ UNCHANGED <<state_, lcur>>
    /\ UNCHANGED lspin

\* Where lock_shared() goes with a value of `current`: the inner while loop
\* waits as long as the writer bit is set, else the CAS is tried.
SharedNextWait(cur) == "ls_wait"

SharedNext(cur) == IF HasWriter(cur) THEN "ls_wait" ELSE "ls_cas"

\* lock_shared(): current = state_.load()
LockSharedLoad(t) ==
    /\ lpc[t] = "ls_load"
    /\ UNCHANGED nonLockVars
    /\ lcur' = [lcur EXCEPT ![t] = state_]
    /\ lpc' = [lpc EXCEPT ![t] = SharedNext(state_)]
    /\ UNCHANGED <<state_, lspin, lret>>

\* lock_shared(): while (current & WRITER_MASK) { yield; current = load }
LockSharedWait(t) ==
    /\ lpc[t] = "ls_wait"
    /\ UNCHANGED nonLockVars
    /\ lcur' = [lcur EXCEPT ![t] = state_]
    /\ lpc' = [lpc EXCEPT ![t] = SharedNext(state_)]
    /\ UNCHANGED <<state_, lspin, lret>>

\* lock_shared(): compare_exchange_weak(current, current + 1); a failure
\* stores the value read into current and goes round the outer loop.
LockSharedCasOk(t) ==
    /\ lpc[t] = "ls_cas"
    /\ UNCHANGED nonLockVars
    /\ CasMatches(state_, lcur[t])
    /\ state_' = Inc(lcur[t])
    /\ lpc' = [lpc EXCEPT ![t] = "held_s"]
    /\ lcur' = [lcur EXCEPT ![t] = Zero]
    /\ UNCHANGED <<lspin, lret>>

LockSharedCas(t) ==
    /\ lpc[t] = "ls_cas"
    /\ \/ LockSharedCasOk(t)
       \/ /\ lcur' = [lcur EXCEPT ![t] = state_]
          /\ lpc' = [lpc EXCEPT ![t] = SharedNext(state_)]
          /\ UNCHANGED <<state_, lspin, lret>>
          /\ UNCHANGED nonLockVars

\* unlock_shared(): state_.fetch_sub(1)
UnlockShared(t) ==
    /\ lpc[t] = "held_s"
    /\ UNCHANGED nonLockVars
    /\ state_' = Dec(state_)
    /\ lpc' = [lpc EXCEPT ![t] = "idle"]
    /\ UNCHANGED <<lcur, lspin, lret>>

\* try_lock_shared(): current = state_.load(); !(current & WRITER_MASK) && ...
TryLockSharedLoad(t) ==
    /\ lpc[t] = "tls_load"
    /\ UNCHANGED nonLockVars
    /\ IF HasWriter(state_)
          THEN /\ lpc' = [lpc EXCEPT ![t] = "idle"]
               /\ lret' = [lret EXCEPT ![t] = "false"]
               /\ UNCHANGED lcur
          ELSE /\ lpc' = [lpc EXCEPT ![t] = "tls_cas"]
               /\ lcur' = [lcur EXCEPT ![t] = state_]
               /\ UNCHANGED lret
    /\ UNCHANGED <<state_, lspin>>

\* try_lock_shared(): ... && compare_exchange_strong(current, current + 1)
TryLockSharedCas(t) ==
    /\ lpc[t] = "tls_cas"
    /\ UNCHANGED nonLockVars
    /\ IF CasMatches(state_, lcur[t])
          THEN /\ state_' = Inc(lcur[t])
               /\ lpc' = [lpc EXCEPT ![t] = "held_s"]
               /\ lret' = [lret EXCEPT ![t] = "true"]
          ELSE /\ lpc' = [lpc EXCEPT ![t] = "idle"]
               /\ lret' = [lret EXCEPT ![t] = "false"]
               /\ UNCHANGED state_
    /\ lcur' = [lcur EXCEPT ![t] = Zero]
    /\ UNCHANGED lspin

LockNext ==
    \E t \in LockThreads :
        \/ LockCall(t)
        \/ LockCas(t)
        \/ LockSpin(t)
        \/ Unlock(t)
        \/ TryLock(t)
        \/ LockSharedLoad(t)
        \/ LockSharedWait(t)
        \/ LockSharedCas(t)
        \/ UnlockShared(t)
        \/ TryLockSharedLoad(t)
        \/ TryLockSharedCas(t)

SpecLock == LockInit /\ [][LockNext]_vars

(***************************************************************************)
(* Shared access only: every thread calls lock_shared() or                 *)
(* try_lock_shared() and releases with unlock_shared() what it got; no     *)
(* thread ever asks for exclusive access.                                  *)
(***************************************************************************)
SharedCall(t) ==
    /\ lpc[t] = "idle"
    /\ UNCHANGED nonLockVars
    /\ \E op \in {"ls_load", "tls_load"} :
          lpc' = [lpc EXCEPT ![t] = op]
    /\ lcur' = [lcur EXCEPT ![t] = Zero]
    /\ lspin' = [lspin EXCEPT ![t] = 0]
    /\ lret' = [lret EXCEPT ![t] = "none"]
    /\ UNCHANGED state_

SharedOnlyNext ==
    \E t \in LockThreads :
        \/ SharedCall(t)
        \/ LockSharedLoad(t)
        \/ LockSharedCas(t)
        \/ UnlockShared(t)
        \/ TryLockSharedLoad(t)
        \/ TryLockSharedCas(t)

SpecShared == LockInit /\ [][SharedOnlyNext]_vars

(***************************************************************************)
(* Progress of lock() and lock_shared(): the threads begin at most         *)
(* MaxAcquire acquisitions between them and release what they acquire.     *)
(***************************************************************************)
ProgressCall(t) ==
    /\ lpc[t] = "idle"
    /\ acquired < MaxAcquire
    /\ acquired' = acquired + 1
    /\ \E op \in {"lock_cas", "ls_load"} :
          lpc' = [lpc EXCEPT ![t] = op]
    /\ lcur' = [lcur EXCEPT ![t] = Zero]
    /\ lspin' = [lspin EXCEPT ![t] = 0]
    /\ lret' = [lret EXCEPT ![t] = "none"]
    /\ UNCHANGED <<state_, arrVars, stripedVars>>

\* The steps of thread t inside lock() / lock_shared() and its releases.
ProgressStep(t) ==
    \/ LockCas(t)
    \/ LockSpin(t)
    \/ Unlock(t)
    \/ LockSharedLoad(t)
    \/ LockSharedWait(t)
    \/ LockSharedCas(t)
    \/ UnlockShared(t)

ProgressNext == \E t \in LockThreads : ProgressCall(t) \/ ProgressStep(t)

\* Thread steps are scheduled fairly, a holder releases, and a
\* compare_exchange_weak that finds the expected value again and again does
\* not fail every time.
ProgressFair ==
    \A t \in LockThreads :
        /\ WF_vars(ProgressStep(t))
        /\ SF_vars(LockCasOk(t))
        /\ SF_vars(LockSharedCasOk(t))

SpecProgress == LockInit /\ [][ProgressNext]_vars /\ ProgressFair

(***************************************************************************)
(* The lock strategy as ThreadSafeArray uses it.  With NullSharedMutex the *)
(* `if constexpr` branch builds no lock object at all.  With a real Mutex  *)
(* the UniqueLock / SharedLock constructor returns when Mutex::lock() /    *)
(* lock_shared() does: for SpinSharedMutex that is the instant its CAS on  *)
(* state_ succeeds (the failed rounds of the spin loops leave state_       *)
(* alone).  std::shared_mutex is the standard's reader/writer lock: the    *)
(* same holders are admitted; its state is kept in the same form (writer   *)
(* flag, number of shared holders).                                        *)
(***************************************************************************)
Strategies == {"std", "spin", "null"}

RealStrategies == {"std", "spin"}

\* lock() / try_lock() can take the mutex: CAS(expected = 0, WRITER_MASK)
MutexLockableAlways(m) == TRUE

MutexLockableWrongExpected(m) == CasMatches(m, WRITER_MASK)

MutexLockable(m) == CasMatches(m, Zero)

\* UniqueLock lock(mutex_, std::try_to_lock); lock.owns_lock(): whether
\* try_lock() took the mutex
OwnsLockAlways(m) == TRUE

OwnsLock(m) == MutexLockable(m)

\* lock_shared() can take the mutex: CAS(current, current + 1), tried only
\* with a `current` that has no writer bit
MutexSharableAlways(m) == TRUE

MutexSharable(m) == ~HasWriter(m)

\* ~UniqueLock / ~SharedLock: unlock() or unlock_shared() if the lock
\* object owns the mutex, nothing otherwise
ReleasedKeep(own, m) == m

Released(own, m) ==
    CASE own = "excl" -> Zero
      [] own = "shared" -> Dec(m)
      [] OTHER -> m

(***************************************************************************)
(* std::vector<T> as data_ uses it; indices are 0-based as in the code.    *)
(***************************************************************************)
\* data_.at(index)
VecAtOffByOne(d, i) ==
    IF i < Len(d) THEN Result("value", <<d[i + 1]>>)
    ELSE IF i = Len(d) THEN Result("value", <<0>>)
    ELSE OutOfRange

VecAt(d, i) == IF i < Len(d) THEN Result("value", <<d[i + 1]>>) ELSE OutOfRange

\* data_.at(index) = value: what it throws
SetResultNoThrow(d, i) == Void

SetResult(d, i) == IF i < Len(d) THEN Void ELSE OutOfRange

\* data_.at(index) = value: what becomes of data_
SetData(d, i, v) == IF i < Len(d) THEN [d EXCEPT ![i + 1] = v] ELSE d

\* data_.erase(data_.begin() + first, data_.begin() + last)
VecEraseTail(d, first, last) == SubSeq(d, 1, Len(d) - (last - first))

VecEraseInclusive(d, first, last) ==
    SubSeq(d, 1, first) \o SubSeq(d, last + 2, Len(d))

VecErase(d, first, last) == SubSeq(d, 1, first) \o SubSeq(d, last + 1, Len(d))

\* the loop of find(): the first i with data_[i] == value, else npos
RECURSIVE FindFrom(_, _, _)
FindFrom(d, v, i) ==
    IF i >= Len(d) THEN Result("npos", <<>>)
    ELSE IF d[i + 1] = v THEN Result("index", <<i>>)
    ELSE FindFrom(d, v, i + 1)

PushOps == {"push_back", "emplace_back", "try_push_back", "try_emplace_back"}

TryOps == {"try_push_back", "try_emplace_back"}

ExclusiveOps ==
    {"push_back", "emplace_back", "insert_range", "set", "erase", "erase_range",
     "clear"}

SharedOps == {"get", "find", "size", "empty", "to_vector", "begin", "end"}

\* The results that are handles into data_'s storage: the T& that
\* emplace_back returns (decltype(auto) of data_.emplace_back) and the
\* const_iterator that begin() / end() return.  A handle is <<position>>.
HandleKinds == {"ref", "iter"}

\* The operations that append: data_.push_back, data_.emplace_back,
\* data_.insert(data_.end(), ...)
AppendOps == PushOps \cup {"insert_range"}

Min(a, b) == IF a < b THEN a ELSE b

\* An append is not one memory access: the vector's end is read when the
\* append begins, then each new element is constructed at the next slot
\* after it and the end is moved past that slot.  WriteAt is one such
\* element step on the vector d, for slot p (0-based).
WriteAtFront(d, p, v) == <<v>> \o d

WriteAt(d, p, v) == SubSeq(d, 1, Min(p, Len(d))) \o <<v>>

\* What one step of the critical section of call c makes of data_ = d.
BodyData(c, d) ==
    CASE c.op \in AppendOps ->
            IF c.pos >= 0 /\ c.k < Len(c.v)
               THEN WriteAt(d, c.pos + c.k, c.v[c.k + 1]) ELSE d
      [] c.op = "set" -> SetData(d, c.i, c.v[1])
      [] c.op = "erase" ->
            IF c.i < Len(d) THEN VecErase(d, c.i, c.i + 1) ELSE d
      [] c.op = "erase_range" ->
            IF c.i < c.j /\ c.j <= Len(d) THEN VecErase(d, c.i, c.j) ELSE d
      [] c.op = "clear" -> <<>>
      [] OTHER -> d

\* What the call returns (or throws) when its critical section ran on d.
BodyResultVoid(c, d) == Void

BodyResult(c, d) ==
    CASE c.op = "push_back" -> Void
      [] c.op = "emplace_back" -> Result("ref", <<c.pos>>)
      [] c.op \in TryOps -> Bool(TRUE)
      [] c.op = "get" -> VecAt(d, c.i)
      [] c.op = "set" -> SetResult(d, c.i)
      [] c.op = "find" -> FindFrom(d, c.v[1], 0)
      [] c.op = "empty" -> Bool(Len(d) = 0)
      [] c.op = "size" -> Result("size", <<Len(d)>>)
      [] c.op = "to_vector" -> Result("vector", d)
      [] c.op = "begin" -> Result("iter", <<0>>)
      [] c.op = "end" -> Result("iter", <<Len(d)>>)
      [] OTHER -> Void

\* The call as one step of its critical section leaves it.
BodyAdvance(c, d) ==
    IF c.op \notin AppendOps THEN c
    ELSE IF c.pos < 0 THEN [c EXCEPT !.pos = Len(d)]
    ELSE IF c.k < Len(c.v) THEN [c EXCEPT !.k = c.k + 1]
    ELSE c

\* Whether the critical section of c has run to its end.
BodyDoneFirst(c) == c.op \in AppendOps => (c.pos >= 0 /\ c.k >= 1)

BodyDone(c) == c.op \in AppendOps => (c.pos >= 0 /\ c.k >= Len(c.v))

(***************************************************************************)
(* ThreadSafeArray: the steps of a call.                                   *)
(***************************************************************************)
\* Thread t enters call c.
StartCall(t, c) ==
    /\ apc[t] = "idle"
    /\ apc' = [apc EXCEPT ![t] = "acquire"]
    /\ acall' = [acall EXCEPT ![t] = c]
    /\ aret' = [aret EXCEPT ![t] = NoResult]
    /\ pre' = [pre EXCEPT ![t] = <<>>]
    /\ UNCHANGED <<strategy, data_, mutex_, aown>>
    /\ UNCHANGED nonArrVars

\* The lock object of the call is constructed: UniqueLock lock(mutex_),
\* UniqueLock lock(mutex_, std::try_to_lock) or SharedLock lock(mutex_);
\* a blocking constructor returns only once the mutex can be taken.
Acquire(t) ==
    /\ apc[t] = "acquire"
    /\ LET c == acall[t]
           m == mutex_[c.arr]
       IN  /\ pre' = [pre EXCEPT ![t] = data_[c.arr]]
           /\ IF strategy = "null"
                 THEN /\ apc' = [apc EXCEPT ![t] = "body"]
                      /\ UNCHANGED <<mutex_, aown, aret>>
              ELSE IF c.op \in TryOps
                 THEN IF OwnsLock(m)
                         THEN /\ mutex_' = [mutex_ EXCEPT ![c.arr] = WRITER_MASK]
                              /\ aown' = [aown EXCEPT ![t] = "excl"]
                              /\ apc' = [apc EXCEPT ![t] = "body"]
                              /\ UNCHANGED aret
                         ELSE /\ aret' = [aret EXCEPT ![t] = Bool(FALSE)]
                              /\ apc' = [apc EXCEPT ![t] = "release"]
                              /\ UNCHANGED <<mutex_, aown>>
              ELSE IF c.op \in ExclusiveOps
                 THEN /\ MutexLockable(m)
                      /\ mutex_' = [mutex_ EXCEPT ![c.arr] = WRITER_MASK]
                      /\ aown' = [aown EXCEPT ![t] = "excl"]
                      /\ apc' = [apc EXCEPT ![t] = "body"]
                      /\ UNCHANGED aret
                 ELSE /\ MutexSharable(m)
                      /\ mutex_' = [mutex_ EXCEPT ![c.arr] = Inc(m)]
                      /\ aown' = [aown EXCEPT ![t] = "shared"]
                      /\ apc' = [apc EXCEPT ![t] = "body"]
                      /\ UNCHANGED aret
    /\ UNCHANGED <<strategy, data_, acall, ref, refret, loop, retry, snap>>
    /\ UNCHANGED nonArrVars

\* One step of the critical section.
BodyStep(t) ==
    /\ apc[t] = "body"
    /\ LET c == acall[t]
           d == data_[c.arr]
           c2 == BodyAdvance(c, d)
       IN  /\ data_' = [data_ EXCEPT ![c.arr] = BodyData(c, d)]
           /\ aret' = [aret EXCEPT ![t] = IF BodyDone(c2) THEN BodyResult(c, d)
                                          ELSE aret[t]]
           /\ acall' = [acall EXCEPT ![t] = c2]
           /\ apc' = [apc EXCEPT ![t] = IF BodyDone(c2) THEN "release" ELSE "body"]
    /\ UNCHANGED <<strategy, mutex_, aown, pre, ref, refret, loop, retry, snap>>
    /\ UNCHANGED nonArrVars

\* The call returns or its exception propagates: the lock object is
\* destroyed either way.
Release(t) ==
    /\ apc[t] = "release"
    /\ mutex_' = [mutex_ EXCEPT ![acall[t].arr] = Released(aown[t], @)]
    /\ aown' = [aown EXCEPT ![t] = "none"]
    /\ apc' = [apc EXCEPT ![t] = "idle"]
    /\ pre' = [pre EXCEPT ![t] = IF aret[t].kind \in HandleKinds
                                    THEN data_[acall[t].arr] ELSE <<>>]
    /\ UNCHANGED <<strategy, data_, acall, aret, ref, refret, loop, retry, snap>>
    /\ UNCHANGED nonArrVars

(***************************************************************************)
(* The unsynchronized ordered sequence the array is compared with: what    *)
(* each operation makes of a plain sequence s, and what it answers.        *)
(***************************************************************************)
RefData(c, s) ==
    CASE c.op \in AppendOps -> s \o c.v
      [] c.op = "set" ->
            IF c.i + 1 \in DOMAIN s
               THEN [n \in DOMAIN s |-> IF n = c.i + 1 THEN c.v[1] ELSE s[n]]
               ELSE s
      [] c.op = "erase" ->
            IF c.i + 1 \in DOMAIN s
               THEN [n \in 1..(Len(s) - 1) |-> IF n <= c.i THEN s[n] ELSE s[n + 1]]
               ELSE s
      [] c.op = "erase_range" ->
            IF c.i < c.j /\ c.j <= Len(s)
               THEN [n \in 1..(Len(s) - (c.j - c.i)) |->
                        IF n <= c.i THEN s[n] ELSE s[n + (c.j - c.i)]]
               ELSE s
      [] c.op = "clear" -> <<>>
      [] OTHER -> s

RefResult(c, s) ==
    CASE c.op = "emplace_back" -> Result("ref", <<Len(s)>>)
      [] c.op \in TryOps -> Bool(TRUE)
      [] c.op = "get" ->
            IF c.i + 1 \in DOMAIN s THEN Result("value", <<s[c.i + 1]>>)
            ELSE OutOfRange
      [] c.op = "set" -> IF c.i + 1 \in DOMAIN s THEN Void ELSE OutOfRange
      [] c.op = "find" ->
            IF \E n \in DOMAIN s : s[n] = c.v[1]
               THEN Result("index",
                      <<(CHOOSE n \in DOMAIN s :
                            /\ s[n] = c.v[1]
                            /\ \A n2 \in 1..(n - 1) : s[n2] # c.v[1]) - 1>>)
               ELSE Result("npos", <<>>)
      [] c.op = "empty" -> Bool(s = <<>>)
      [] c.op = "size" -> Result("size", <<Len(s)>>)
      [] c.op = "to_vector" -> Result("vector", s)
      [] OTHER -> Void

(***************************************************************************)
(* Single-threaded use: one thread issues any sequence of operations on    *)
(* array 1, under each lock strategy.                                      *)
(***************************************************************************)
Indices == 0..(MaxLen + 1)

\* The ranges given to insert_range.
MaxRange == 2

Ranges == UNION {[1..n -> Values] : n \in 0..MaxRange}

SeqCalls ==
    {Call(op, 1, 0, 0, <<v>>) : op \in PushOps \cup {"find"}, v \in Values}
    \cup {Call("insert_range", 1, 0, 0, r) : r \in Ranges}
    \cup {Call("get", 1, i, 0, <<>>) : i \in Indices}
    \cup {Call("erase", 1, i, 0, <<>>) : i \in Indices}
    \cup {Call("set", 1, i, 0, <<v>>) : i \in Indices, v \in Values}
    \cup {Call("erase_range", 1, i, j, <<>>) : i \in Indices, j \in Indices}
    \cup {Call(op, 1, 0, 0, <<>>) : op \in {"clear", "size", "empty", "to_vector"}}

\* How much call c can add to the array.
Growth(c) == IF c.op \in AppendOps THEN Len(c.v) ELSE 0

SeqInit == LockIdle /\ strategy \in Strategies /\ ArrFresh /\ StripedFresh

\* The thread issues its next operation; the unsynchronized sequence is
\* given the same operation.
SeqCall ==
    \E c \in SeqCalls :
        /\ Len(data_[1]) + Growth(c) <= MaxLen
        /\ StartCall(1, c)
        /\ ref' = RefData(c, ref)
        /\ refret' = RefResult(c, ref)
        /\ UNCHANGED <<loop, retry, snap>>

SeqNext ==
    \/ SeqCall
    \/ Acquire(1)
    \/ BodyStep(1)
    \/ Release(1)

SpecSeq == SeqInit /\ [][SeqNext]_vars

(***************************************************************************)
(* The round trip of one thread: the array is filled by push_back, then    *)
(* auto snap = arr.to_vector(); arr.clear(); arr.insert_range(snap);       *)
(* loop[1] tells how many of these three calls have been made.  ref is the *)
(* unsynchronized sequence given the push_backs, that is the original      *)
(* sequence.                                                               *)
(***************************************************************************)
RoundInit == SeqInit

\* The thread pushes a value (before a round trip, or after a whole one).
RoundPush ==
    \E v \in Values :
        LET c == Call("push_back", 1, 0, 0, <<v>>)
        IN  /\ loop[1] \in {0, 3}
            /\ Len(data_[1]) < MaxLen
            /\ StartCall(1, c)
            /\ ref' = RefData(c, ref)
            /\ refret' = RefResult(c, ref)
            /\ loop' = [loop EXCEPT ![1] = 0]
            /\ snap' = <<>>
            /\ UNCHANGED retry

\* arr.to_vector() is called.
RoundSnapshot ==
    LET c == Call("to_vector", 1, 0, 0, <<>>)
    IN  /\ loop[1] = 0
        /\ StartCall(1, c)
        /\ refret' = RefResult(c, ref)
        /\ loop' = [loop EXCEPT ![1] = 1]
        /\ UNCHANGED <<ref, retry, snap>>

\* The returned vector becomes snap and arr.clear() is called.
RoundClear ==
    /\ loop[1] = 1
    /\ StartCall(1, Call("clear", 1, 0, 0, <<>>))
    /\ snap' = aret[1].val
    /\ loop' = [loop EXCEPT ![1] = 2]
    /\ UNCHANGED <<ref, refret, retry>>

\* arr.insert_range(snap) is called.
RoundInsert ==
    /\ loop[1] = 2
    /\ StartCall(1, Call("insert_range", 1, 0, 0, snap))
    /\ loop' = [loop EXCEPT ![1] = 3]
    /\ UNCHANGED <<ref, refret, retry, snap>>

RoundNext ==
    \/ RoundPush
    \/ RoundSnapshot
    \/ RoundClear
    \/ RoundInsert
    \/ Acquire(1)
    \/ BodyStep(1)
    \/ Release(1)

SpecRound == RoundInit /\ [][RoundNext]_vars

(***************************************************************************)
(* Several threads on array 1 guarded by a real lock.                      *)
(***************************************************************************)
RECURSIVE SumOver(_, _)
SumOver(S, f) ==
    IF S = {} THEN 0
    ELSE LET x == CHOOSE y \in S : TRUE IN f[x] + SumOver(S \ {x}, f)

\* The elements the calls in progress have still to append.
PendingGrowth ==
    SumOver(ArrThreads,
            [t \in ArrThreads |->
                IF apc[t] # "idle" /\ acall[t].op \in AppendOps
                   THEN Len(acall[t].v) - acall[t].k ELSE 0])

\* Call c keeps the array within MaxLen elements.
Fits(c) == Len(data_[c.arr]) + PendingGrowth + Growth(c) <= MaxLen

ConcInit ==
    LockIdle /\ strategy \in RealStrategies /\ ArrFresh /\ StripedFresh

\* Thread t calls try_push_back with a value that tells who pushed it; it
\* is a retry if t's last call was a try_push_back that returned false.
TryCall(t) ==
    LET c == Call("try_push_back", 1, 0, 0, <<t>>)
    IN  /\ Fits(c)
        /\ StartCall(t, c)
        /\ retry' = [retry EXCEPT ![t] =
                         acall[t].op = "try_push_back" /\ aret[t] = Bool(FALSE)]
        /\ UNCHANGED <<ref, refret, loop, snap>>

\* Thread t calls an operation that takes the lock and waits for it:
\* push_back exclusively, size() shared.
HolderCall(t) ==
    \E c \in {Call("push_back", 1, 0, 0, <<t>>), Call("size", 1, 0, 0, <<>>)} :
        /\ Fits(c)
        /\ StartCall(t, c)
        /\ retry' = [retry EXCEPT ![t] = FALSE]
        /\ UNCHANGED <<ref, refret, loop, snap>>

TryNext ==
    \E t \in ArrThreads :
        \/ TryCall(t)
        \/ HolderCall(t)
        \/ Acquire(t)
        \/ BodyStep(t)
        \/ Release(t)

SpecTry == ConcInit /\ [][TryNext]_vars

(***************************************************************************)
(* Handles.  emplace_back returns the T& of the new element and begin() /  *)
(* end() return iterators; the lock object of the call is destroyed at its *)
(* return, so the caller has the handle with no lock held.  Reading an     *)
(* element through it is a read of data_'s storage by the caller: it gives *)
(* the element if the handle still points at one (data_ as it was, and no  *)
(* writer at work), and is undefined otherwise: any value, or a crash.     *)
(***************************************************************************)
\* Thread u is inside the critical section of a mutating operation.
Mutating(u) == apc[u] = "body" /\ acall[u].op \in ExclusiveOps \cup TryOps

HandleValid(t) ==
    /\ data_[acall[t].arr] = pre[t]
    /\ aret[t].val[1] < Len(pre[t])
    /\ \A u \in ArrThreads \ {t} : ~Mutating(u)

DerefOutcomes(t) ==
    IF HandleValid(t)
       THEN {Result("value", <<pre[t][aret[t].val[1] + 1]>>)}
       ELSE {Result("value", <<v>>) : v \in ArrThreads} \cup {Result("crash", <<>>)}

\* Thread t calls begin(), end(), clear(), or emplace_back with a value
\* that tells who put it there.
HandleCall(t) ==
    \E c \in {Call(op, 1, 0, 0, <<>>) : op \in {"begin", "end", "clear"}}
              \cup {Call("emplace_back", 1, 0, 0, <<t>>)} :
        /\ Fits(c)
        /\ StartCall(t, c)
        /\ UNCHANGED <<ref, refret, loop, retry, snap>>

\* Thread t, outside any call, begins to read the element its handle
\* points at (*it, or the T& used).
HandleUse(t) ==
    /\ apc[t] = "idle"
    /\ aret[t].kind \in HandleKinds
    /\ apc' = [apc EXCEPT ![t] = "deref"]
    /\ UNCHANGED <<strategy, data_, mutex_, acall, aown, aret, pre, ref, refret,
                   loop, retry, snap>>
    /\ UNCHANGED nonArrVars

\* The read through the handle ends.
HandleRead(t) ==
    /\ apc[t] = "deref"
    /\ \E r \in DerefOutcomes(t) : aret' = [aret EXCEPT ![t] = r]
    /\ apc' = [apc EXCEPT ![t] = "idle"]
    /\ pre' = [pre EXCEPT ![t] = <<>>]
    /\ UNCHANGED <<strategy, data_, mutex_, acall, aown, ref, refret, loop, retry,
                   snap>>
    /\ UNCHANGED nonArrVars

HandleNext ==
    \E t \in ArrThreads :
        \/ HandleCall(t)
        \/ HandleUse(t)
        \/ HandleRead(t)
        \/ Acquire(t)
        \/ BodyStep(t)
        \/ Release(t)

SpecHandle == ConcInit /\ [][HandleNext]_vars

(***************************************************************************)
(* conditional_action(pred, action): an exclusive section that evaluates   *)
(* pred over the whole sequence and, only if it is true, applies action.   *)
(* Here pred is "the sequence does not contain v" and action is            *)
(* "append v" (insert if absent); the call returns whether it acted.  In   *)
(* the call record c.v = <<v>>, c.i tells whether pred has been evaluated  *)
(* and c.j what it gave; the append uses c.pos and c.k as every append.    *)
(***************************************************************************)
CondPred(d, v) == \A n \in 1..Len(d) : d[n] # v

\* Thread t calls conditional_action.
CondCall(t) ==
    \E v \in Values :
        LET c == Call("conditional_action", 1, 0, 0, <<v>>)
        IN  /\ apc[t] = "idle"
            /\ Len(data_[1]) + PendingGrowth + 1 <= MaxLen
            /\ apc' = [apc EXCEPT ![t] = "cond_acquire"]
            /\ acall' = [acall EXCEPT ![t] = c]
            /\ aret' = [aret EXCEPT ![t] = NoResult]
            /\ pre' = [pre EXCEPT ![t] = <<>>]
            /\ UNCHANGED <<strategy, data_, mutex_, aown, ref, refret, loop, retry,
                           snap>>
            /\ UNCHANGED nonArrVars

\* UniqueLock lock(mutex_): the exclusive section begins.
CondAcquire(t) ==
    /\ apc[t] = "cond_acquire"
    /\ MutexLockable(mutex_[acall[t].arr])
    /\ mutex_' = [mutex_ EXCEPT ![acall[t].arr] = WRITER_MASK]
    /\ aown' = [aown EXCEPT ![t] = "excl"]
    /\ pre' = [pre EXCEPT ![t] = data_[acall[t].arr]]
    /\ apc' = [apc EXCEPT ![t] = "cond_check"]
    /\ UNCHANGED <<strategy, data_, acall, aret, ref, refret, loop, retry, snap>>
    /\ UNCHANGED nonArrVars

\* pred is evaluated over the sequence; if it is false the call is over.
CondCheck(t) ==
    /\ apc[t] = "cond_check"
    /\ LET c == acall[t]
           holds == CondPred(data_[c.arr], c.v[1])
       IN  /\ acall' = [acall EXCEPT ![t].i = 1,
                                      ![t].j = IF holds THEN 1 ELSE 0,
                                      ![t].pos = IF holds THEN Len(data_[c.arr])
                                                 ELSE -1]
           /\ apc' = [apc EXCEPT ![t] = IF holds THEN "cond_act" ELSE "release"]
           /\ aret' = [aret EXCEPT ![t] = IF holds THEN aret[t] ELSE Bool(FALSE)]
    /\ UNCHANGED <<strategy, data_, mutex_, aown, pre, ref, refret, loop, retry,
                   snap>>
    /\ UNCHANGED nonArrVars

\* action is applied: v is put in place at the end the check saw.
CondAct(t) ==
    /\ apc[t] = "cond_act"
    /\ LET c == acall[t]
       IN  /\ data_' = [data_ EXCEPT ![c.arr] = WriteAt(@, c.pos, c.v[1])]
           /\ acall' = [acall EXCEPT ![t].k = 1]
    /\ aret' = [aret EXCEPT ![t] = Bool(TRUE)]
    /\ apc' = [apc EXCEPT ![t] = "release"]
    /\ UNCHANGED <<strategy, mutex_, aown, pre, ref, refret, loop, retry, snap>>
    /\ UNCHANGED nonArrVars

\* Thread t calls another mutating operation: clear().
CondOther(t) ==
    \E c \in {Call("clear", 1, 0, 0, <<>>)} :
        /\ Fits(c)
        /\ StartCall(t, c)
        /\ UNCHANGED <<ref, refret, loop, retry, snap>>

CondNext ==
    \E t \in ArrThreads :
        \/ CondCall(t)
        \/ CondAcquire(t)
        \/ CondCheck(t)
        \/ CondAct(t)
        \/ CondOther(t)
        \/ Acquire(t)
        \/ BodyStep(t)
        \/ Release(t)

SpecCond == ConcInit /\ [][CondNext]_vars

(***************************************************************************)
(* test_push_back(arr, n, threads): worker tid pushes the values i with    *)
(* tid * n / threads <= i < (tid + 1) * n / threads, in that order.  The   *)
(* barrier only makes the workers start together.  Thread t is worker      *)
(* tid = t - 1, and n = threads * PerThread.                               *)
(***************************************************************************)
PushN == NumArrThreads * PerThread

PushFirst(t) == ((t - 1) * PushN) \div NumArrThreads

PushLast(t) == (t * PushN) \div NumArrThreads

PushInit ==
    /\ LockIdle
    /\ StripedFresh
    /\ strategy \in RealStrategies
    /\ data_ = [a \in Arrays |-> <<>>]
    /\ mutex_ = [a \in Arrays |-> Zero]
    /\ apc = [t \in ArrThreads |-> "idle"]
    /\ acall = [t \in ArrThreads |-> NoCall]
    /\ aown = [t \in ArrThreads |-> "none"]
    /\ aret = [t \in ArrThreads |-> NoResult]
    /\ pre = [t \in ArrThreads |-> <<>>]
    /\ ref = <<>>
    /\ refret = NoResult
    /\ loop = [t \in ArrThreads |-> PushFirst(t)]
    /\ retry = [t \in ArrThreads |-> FALSE]
    /\ snap = <<>>

\* One iteration of the worker's loop begins: arr.push_back(i); loop[t] is
\* then the i of the iteration after it.
PushCall(t) ==
    /\ loop[t] < PushLast(t)
    /\ StartCall(t, Call("push_back", 1, 0, 0, <<loop[t]>>))
    /\ loop' = [loop EXCEPT ![t] = loop[t] + 1]
    /\ UNCHANGED <<ref, refret, retry, snap>>

PushNext ==
    \E t \in ArrThreads :
        \/ PushCall(t)
        \/ Acquire(t)
        \/ BodyStep(t)
        \/ Release(t)

\* Some thread that can take a step is eventually scheduled.
SpecPush == PushInit /\ [][PushNext]_vars /\ WF_vars(PushNext)

\* Every worker has left its loop.
AllPushed == \A t \in ArrThreads : apc[t] = "idle" /\ loop[t] = PushLast(t)

(***************************************************************************)
(* batch_push_back_test(arr, n, threads, batch_size) with                  *)
(* n = threads * batch_size: worker tid fills batch[j] = i + j for         *)
(* i = tid * n / threads and calls arr.insert_range(batch) once.  Between  *)
(* and after that any thread may read the array with size(), to_vector()   *)
(* or get(i).                                                              *)
(***************************************************************************)
BatchN == NumArrThreads * BatchSize

BatchFirst(t) == ((t - 1) * BatchN) \div NumArrThreads

BatchLast(t) == (t * BatchN) \div NumArrThreads

\* batch[j] = i + j for j < batch_size
Batch(i) == [j \in 1..BatchSize |-> i + (j - 1)]

BatchInit ==
    /\ LockIdle
    /\ StripedFresh
    /\ strategy \in RealStrategies
    /\ data_ = [a \in Arrays |-> <<>>]
    /\ mutex_ = [a \in Arrays |-> Zero]
    /\ apc = [t \in ArrThreads |-> "idle"]
    /\ acall = [t \in ArrThreads |-> NoCall]
    /\ aown = [t \in ArrThreads |-> "none"]
    /\ aret = [t \in ArrThreads |-> NoResult]
    /\ pre = [t \in ArrThreads |-> <<>>]
    /\ ref = <<>>
    /\ refret = NoResult
    /\ loop = [t \in ArrThreads |-> BatchFirst(t)]
    /\ retry = [t \in ArrThreads |-> FALSE]
    /\ snap = <<>>

\* One iteration of the worker's loop begins: arr.insert_range(batch);
\* loop[t] is then the i of the iteration after it (i += batch_size).
BatchCall(t) ==
    /\ loop[t] < BatchLast(t)
    /\ StartCall(t, Call("insert_range", 1, 0, 0, Batch(loop[t])))
    /\ loop' = [loop EXCEPT ![t] = loop[t] + BatchSize]
    /\ UNCHANGED <<ref, refret, retry, snap>>

\* A thread reads the array.
ReaderCall(t) ==
    \E c \in {Call("size", 1, 0, 0, <<>>), Call("to_vector", 1, 0, 0, <<>>)}
              \cup {Call("get", 1, i, 0, <<>>) : i \in 0..BatchSize} :
        /\ StartCall(t, c)
        /\ UNCHANGED <<ref, refret, loop, retry, snap>>

BatchNext ==
    \E t \in ArrThreads :
        \/ BatchCall(t)
        \/ ReaderCall(t)
        \/ Acquire(t)
        \/ BodyStep(t)
        \/ Release(t)

SpecBatch == BatchInit /\ [][BatchNext]_vars

\* Every worker has inserted its batch and no call is in progress.
AllInserted == \A t \in ArrThreads : apc[t] = "idle" /\ loop[t] = BatchLast(t)

(***************************************************************************)
(* swap.  Two arrays a = 1 and b = 2 with different contents, guarded by   *)
(* real locks; odd threads call a.swap(b) or a.swap(a), even threads       *)
(* b.swap(a) or b.swap(b); any thread may also copy an array with          *)
(* to_vector().                                                            *)
(*                                                                         *)
(* std::scoped_lock lock(mutex_, other.mutex_) is std::lock: lock one      *)
(* mutex, try_lock the other, and on failure unlock the first and start    *)
(* over.  It begins with mutex_; which mutex a new round begins with is    *)
(* the library's choice.  In a swap call c, c.arr is this, c.i is other,   *)
(* c.j the array whose mutex the current round locks first, c.v the        *)
(* temporary of the exchange and c.k its progress (c.j is a local of       *)
(* std::lock, dead once the call returns, and is then kept at c.arr).      *)
(***************************************************************************)
ContentsA == <<1>>

ContentsB == <<2, 2>>

\* if (this == &other) return;
SameObjectNever(this, other) == FALSE

SameObject(this, other) == this = other

\* The mutex std::lock tries after the one it locked first.
Second(c) == IF c.j = c.arr THEN c.i ELSE c.arr

\* What a swap makes of the contents s of array a, done on plain sequences.
SwapRef(s) == IF s = ContentsA THEN ContentsB ELSE ContentsA

\* The calls made so far; loop[t] counts those of thread t.
CallsMade == SumOver(ArrThreads, loop)

SwapInit ==
    /\ LockIdle
    /\ StripedFresh
    /\ strategy \in RealStrategies
    /\ data_ = [a \in Arrays |-> IF a = 1 THEN ContentsA ELSE ContentsB]
    /\ mutex_ = [a \in Arrays |-> Zero]
    /\ apc = [t \in ArrThreads |-> "idle"]
    /\ acall = [t \in ArrThreads |-> NoCall]
    /\ aown = [t \in ArrThreads |-> "none"]
    /\ aret = [t \in ArrThreads |-> NoResult]
    /\ pre = [t \in ArrThreads |-> <<>>]
    /\ ref = ContentsA
    /\ refret = NoResult
    /\ loop = [t \in ArrThreads |-> 0]
    /\ retry = [t \in ArrThreads |-> FALSE]
    /\ snap = <<>>

\* Thread t calls this.swap(other).  With this == &other the call returns
\* at once.
SwapCall(t) ==
    \E this \in Arrays, other \in Arrays :
        /\ apc[t] = "idle"
        /\ CallsMade < MaxCalls
        /\ this = 2 - (t % 2)
        /\ acall' = [acall EXCEPT ![t] = Call("swap", this, other, this, <<>>)]
        /\ IF SameObject(this, other)
              THEN /\ aret' = [aret EXCEPT ![t] = Void]
                   /\ UNCHANGED apc
              ELSE /\ aret' = [aret EXCEPT ![t] = NoResult]
                   /\ apc' = [apc EXCEPT ![t] = "swap_lock"]
        /\ ref' = IF this = other THEN ref ELSE SwapRef(ref)
        /\ loop' = [loop EXCEPT ![t] = loop[t] + 1]
        /\ UNCHANGED <<strategy, data_, mutex_, aown, pre, refret, retry, snap>>
        /\ UNCHANGED nonArrVars

\* std::lock: the blocking lock() of the round's first mutex.
SwapLock(t) ==
    /\ apc[t] = "swap_lock"
    /\ MutexLockable(mutex_[acall[t].j])
    /\ mutex_' = [mutex_ EXCEPT ![acall[t].j] = WRITER_MASK]
    /\ aown' = [aown EXCEPT ![t] = "first"]
    /\ apc' = [apc EXCEPT ![t] = "swap_try"]
    /\ UNCHANGED <<strategy, data_, acall, aret, pre, ref, refret, loop, retry, snap>>
    /\ UNCHANGED nonArrVars

\* std::lock: try_lock() of the other mutex succeeds; both are held.
SwapTryOk(t) ==
    /\ apc[t] = "swap_try"
    /\ OwnsLock(mutex_[Second(acall[t])])
    /\ mutex_' = [mutex_ EXCEPT ![Second(acall[t])] = WRITER_MASK]
    /\ aown' = [aown EXCEPT ![t] = "both"]
    /\ apc' = [apc EXCEPT ![t] = "swap_body"]
    /\ UNCHANGED <<strategy, data_, acall, aret, pre, ref, refret, loop, retry, snap>>
    /\ UNCHANGED nonArrVars

\* std::lock: try_lock() of the other mutex fails; the first is unlocked
\* and a new round begins, with either mutex.
SwapTryFail(t) ==
    /\ apc[t] = "swap_try"
    /\ ~OwnsLock(mutex_[Second(acall[t])])
    /\ mutex_' = [mutex_ EXCEPT ![acall[t].j] = Released("excl", @)]
    /\ aown' = [aown EXCEPT ![t] = "none"]
    /\ \E f \in {acall[t].arr, acall[t].i} :
          acall' = [acall EXCEPT ![t].j = f]
    /\ apc' = [apc EXCEPT ![t] = "swap_lock"]
    /\ UNCHANGED <<strategy, data_, aret, pre, ref, refret, loop, retry, snap>>
    /\ UNCHANGED nonArrVars

\* data_.swap(other.data_): the exchange goes through a temporary, so it
\* is two steps on the two vectors.
SwapBody(t) ==
    /\ apc[t] = "swap_body"
    /\ LET c == acall[t]
       IN  IF c.k = 0
              THEN /\ data_' = [data_ EXCEPT ![c.arr] = data_[c.i]]
                   /\ acall' = [acall EXCEPT ![t].v = data_[c.arr], ![t].k = 1]
                   /\ UNCHANGED <<apc, aret>>
              ELSE /\ data_' = [data_ EXCEPT ![c.i] = c.v]
                   /\ acall' = [acall EXCEPT ![t].v = <<>>, ![t].k = 2]
                   /\ aret' = [aret EXCEPT ![t] = Void]
                   /\ apc' = [apc EXCEPT ![t] = "swap_unlock"]
    /\ UNCHANGED <<strategy, mutex_, aown, pre, ref, refret, loop, retry, snap>>
    /\ UNCHANGED nonArrVars

\* ~scoped_lock: unlock() of mutex_, then of other.mutex_; the call returns.
SwapUnlock(t) ==
    /\ apc[t] = "swap_unlock"
    /\ IF aown[t] = "both"
          THEN /\ mutex_' = [mutex_ EXCEPT ![acall[t].arr] = Released("excl", @)]
               /\ aown' = [aown EXCEPT ![t] = "other"]
               /\ UNCHANGED apc
               /\ UNCHANGED acall
          ELSE /\ mutex_' = [mutex_ EXCEPT ![acall[t].i] = Released("excl", @)]
               /\ aown' = [aown EXCEPT ![t] = "none"]
               /\ acall' = [acall EXCEPT ![t].j = acall[t].arr]
               /\ apc' = [apc EXCEPT ![t] = "idle"]
    /\ UNCHANGED <<strategy, data_, aret, pre, ref, refret, loop, retry, snap>>
    /\ UNCHANGED nonArrVars

\* Thread t copies one of the arrays.
CopyCall(t) ==
    \E a \in Arrays :
        /\ CallsMade < MaxCalls
        /\ StartCall(t, Call("to_vector", a, 0, 0, <<>>))
        /\ loop' = [loop EXCEPT ![t] = loop[t] + 1]
        /\ UNCHANGED <<ref, refret, retry, snap>>

\* The steps of thread t inside a call.
SwapStep(t) ==
    \/ SwapLock(t)
    \/ SwapTryOk(t)
    \/ SwapTryFail(t)
    \/ SwapBody(t)
    \/ SwapUnlock(t)
    \/ Acquire(t)
    \/ BodyStep(t)
    \/ Release(t)

SwapNext ==
    \E t \in ArrThreads :
        \/ SwapCall(t)
        \/ CopyCall(t)
        \/ SwapStep(t)

\* A thread inside a call is eventually scheduled, and the try_lock() of
\* std::lock, which finds its mutex free again and again, does not always
\* come at a moment when the mutex is taken.
SwapFair ==
    \A t \in ArrThreads :
        /\ WF_vars(SwapStep(t))
        /\ SF_vars(SwapTryOk(t))

SpecSwap == SwapInit /\ [][SwapNext]_vars /\ SwapFair

(***************************************************************************)
(* The striped array.  Its steps follow its design: N segments, each with  *)
(* its own lock (StripedSharedMutex::stripe) and its own atomic count; a   *)
(* selection counter that sends each push_back / insert_range to segment   *)
(* counter mod N; a cached total size with a dirty flag.  Every access to  *)
(* an atomic (counter, count, flag, cached size) is a step of its own.     *)
(***************************************************************************)
nonStripedVars == <<lockVars, arrVars, acquired>>

\* StripedSharedMutex::stripe(i) is stripes_[i % NumStripes].
StripeOfWrap(i) == IF i < NumStripes THEN i ELSE NumStripes - 1

StripeOf(i) == i % NumStripes

\* a ^ b on unsigned integers
RECURSIVE Xor(_, _)
Xor(a, b) ==
    IF a = 0 THEN b
    ELSE IF b = 0 THEN a
    ELSE 2 * Xor(a \div 2, b \div 2) + ((a + b) % 2)

\* StripedSharedMutex::stripe_index(key), from the value hash that
\* std::hash<Key>{}(key) gives: hash ^= hash >> 16; return hash % NumStripes.
StripeIndex(hash) == Xor(hash, hash \div 65536) % NumStripes

\* StripedSharedMutex::stripes()
StripeCount == NumStripes

\* A sum that stops after the first term.
SumSeqFirst(q) == IF q = <<>> THEN 0 ELSE Head(q)

RECURSIVE SumSeq(_)
SumSeq(q) == IF q = <<>> THEN 0 ELSE Head(q) + SumSeq(Tail(q))

\* The number of elements the segments hold.
TotalElements == SumSeq([n \in 1..NumStripes |-> Len(segments_[n - 1])])

\* Thread t enters push_back(v) (one value) or insert_range(range): the
\* selection counter is fetched and incremented, which picks the segment.
SAppendCall(t, op, v) ==
    /\ spc[t] = "idle"
    /\ scall' = [scall EXCEPT ![t] =
                    [SCall(op, 0, v) EXCEPT !.seg = StripeOf(counter_)]]
    /\ counter_' = counter_ + 1
    /\ spc' = [spc EXCEPT ![t] = "wlock"]
    /\ sret' = [sret EXCEPT ![t] = NoResult]
    /\ UNCHANGED <<stripes_, segments_, counts_, cached_, dirty_>>
    /\ UNCHANGED nonStripedVars

\* The exclusive lock of the chosen segment is taken.
SWriteLock(t) ==
    /\ spc[t] = "wlock"
    /\ MutexLockable(stripes_[StripeOf(scall[t].seg)])
    /\ stripes_' = [stripes_ EXCEPT ![StripeOf(scall[t].seg)] = WRITER_MASK]
    /\ spc' = [spc EXCEPT ![t] = "append"]
    /\ UNCHANGED <<segments_, counts_, counter_, cached_, dirty_, scall, sret>>
    /\ UNCHANGED nonStripedVars

\* The next element is appended to the segment; after the last one the
\* count is to be updated.
SAppend(t) ==
    /\ spc[t] = "append"
    /\ LET c == scall[t]
       IN  /\ segments_' = [segments_ EXCEPT ![c.seg] =
                               IF c.k < Len(c.v) THEN @ \o <<c.v[c.k + 1]>> ELSE @]
           /\ scall' = [scall EXCEPT ![t].k = Min(c.k + 1, Len(c.v))]
           /\ spc' = [spc EXCEPT ![t] = IF c.k + 1 < Len(c.v) THEN "append" ELSE "count"]
    /\ UNCHANGED <<stripes_, counts_, counter_, cached_, dirty_, sret>>
    /\ UNCHANGED nonStripedVars

\* The count of a segment that held n elements after v was appended to it.
CountedOne(n, v) == n + 1

Counted(n, v) == n + Len(v)

\* The holder of the exclusive lock adds what it appended to the count.
SCount(t) ==
    /\ spc[t] = "count"
    /\ counts_' = [counts_ EXCEPT ![scall[t].seg] = Counted(@, scall[t].v)]
    /\ spc' = [spc EXCEPT ![t] = "mark"]
    /\ UNCHANGED <<stripes_, segments_, counter_, cached_, dirty_, scall, sret>>
    /\ UNCHANGED nonStripedVars

\* The mutating operation has succeeded: the dirty flag is set.
SMark(t) ==
    /\ spc[t] = "mark"
    /\ dirty_' = TRUE
    /\ spc' = [spc EXCEPT ![t] = "wunlock"]
    /\ UNCHANGED <<stripes_, segments_, counts_, counter_, cached_, scall, sret>>
    /\ UNCHANGED nonStripedVars

\* The exclusive lock is released and the call returns.
SWriteUnlock(t) ==
    /\ spc[t] = "wunlock"
    /\ stripes_' = [stripes_ EXCEPT ![StripeOf(scall[t].seg)] = Released("excl", @)]
    /\ spc' = [spc EXCEPT ![t] = "idle"]
    /\ sret' = [sret EXCEPT ![t] = Void]
    /\ scall' = [scall EXCEPT ![t] = NoSCall]
    /\ UNCHANGED <<segments_, counts_, counter_, cached_, dirty_>>
    /\ UNCHANGED nonStripedVars

\* The steps of thread t inside push_back / insert_range.
SWriteStep(t) ==
    \/ SWriteLock(t)
    \/ SAppend(t)
    \/ SCount(t)
    \/ SMark(t)
    \/ SWriteUnlock(t)

\* Thread t enters size().
SSizeCall(t) ==
    /\ spc[t] = "idle"
    /\ scall' = [scall EXCEPT ![t] = SCall("size", 0, <<>>)]
    /\ spc' = [spc EXCEPT ![t] = "size_flag"]
    /\ sret' = [sret EXCEPT ![t] = NoResult]
    /\ UNCHANGED <<stripes_, segments_, counts_, counter_, cached_, dirty_>>
    /\ UNCHANGED nonStripedVars

\* size() tests the dirty flag and, where it is set, clears it for the
\* recomputation that follows; a clear flag leads to the cached fast path.
SSizeFlag(t) ==
    /\ spc[t] = "size_flag"
    /\ dirty_' = FALSE
    /\ spc' = [spc EXCEPT ![t] = IF dirty_ THEN "size_sum" ELSE "size_cached"]
    /\ UNCHANGED <<stripes_, segments_, counts_, counter_, cached_, scall, sret>>
    /\ UNCHANGED nonStripedVars

\* The fast path returns the cached total.
SSizeCached(t) ==
    /\ spc[t] = "size_cached"
    /\ sret' = [sret EXCEPT ![t] = Result("size", <<cached_>>)]
    /\ scall' = [scall EXCEPT ![t] = NoSCall]
    /\ spc' = [spc EXCEPT ![t] = "idle"]
    /\ UNCHANGED <<stripes_, segments_, counts_, counter_, cached_, dirty_>>
    /\ UNCHANGED nonStripedVars

\* The slow path (and get) reads the next segment's count.
SReadCount(t) ==
    /\ spc[t] \in {"size_sum", "get_snap"}
    /\ Len(scall[t].snap) < NumStripes
    /\ scall' = [scall EXCEPT ![t].snap = @ \o <<counts_[Len(@)]>>]
    /\ UNCHANGED <<stripes_, segments_, counts_, counter_, cached_, dirty_, spc, sret>>
    /\ UNCHANGED nonStripedVars

\* The slow path stores the sum it read as the cached total and returns it.
SSizeStore(t) ==
    /\ spc[t] = "size_sum"
    /\ Len(scall[t].snap) = NumStripes
    /\ cached_' = SumSeq(scall[t].snap)
    /\ sret' = [sret EXCEPT ![t] = Result("size", <<SumSeq(scall[t].snap)>>)]
    /\ scall' = [scall EXCEPT ![t] = NoSCall]
    /\ spc' = [spc EXCEPT ![t] = "idle"]
    /\ UNCHANGED <<stripes_, segments_, counts_, counter_, dirty_>>
    /\ UNCHANGED nonStripedVars

\* The steps of thread t inside size().
SSizeStep(t) ==
    \/ SSizeFlag(t)
    \/ SSizeCached(t)
    \/ SReadCount(t)
    \/ SSizeStore(t)

\* The prefix sums of a snapshot of the counts: PrefixSums(q)[n] is the
\* number of elements in the first n segments.
PrefixSums(q) == [n \in 1..Len(q) |-> SumSeq(SubSeq(q, 1, n))]

\* Binary search in the prefix sums p, between lo and hi, for the first
\* segment whose prefix sum exceeds i.
RECURSIVE UpperBound(_, _, _, _)
UpperBound(p, i, lo, hi) ==
    IF lo >= hi
       THEN lo
       ELSE LET mid == (lo + hi) \div 2
            IN  IF p[mid] > i
                   THEN UpperBound(p, i, lo, mid)
                   ELSE UpperBound(p, i, mid + 1, hi)

\* A search that takes the first segment with a prefix sum of at least i.
LocateInclusive(q, i) ==
    LET p == PrefixSums(q)
        n == CHOOSE m \in 1..Len(q) : p[m] >= i /\ \A l \in 1..(m - 1) : p[l] < i
    IN  [seg |-> n - 1, off |-> IF n = 1 THEN i ELSE i - p[n - 1]]

\* A resolution that finds the segment and keeps the index as the offset.
LocateNoOffset(q, i) ==
    [seg |-> UpperBound(PrefixSums(q), i, 1, Len(q)) - 1, off |-> i]

\* The segment and the offset in it that index i resolves to under the
\* snapshot q of the counts; i is below the sum of q.
Locate(q, i) ==
    LET p == PrefixSums(q)
        n == UpperBound(p, i, 1, Len(q))
    IN  [seg |-> n - 1, off |-> IF n = 1 THEN i ELSE i - p[n - 1]]

\* Thread t enters get(i).
SGetCall(t, i) ==
    /\ spc[t] = "idle"
    /\ scall' = [scall EXCEPT ![t] = SCall("get", i, <<>>)]
    /\ spc' = [spc EXCEPT ![t] = "get_snap"]
    /\ sret' = [sret EXCEPT ![t] = NoResult]
    /\ UNCHANGED <<stripes_, segments_, counts_, counter_, cached_, dirty_>>
    /\ UNCHANGED nonStripedVars

\* With every count read: an index not below their sum is out of range,
\* any other is resolved to a segment and an offset.
SGetFind(t) ==
    /\ spc[t] = "get_snap"
    /\ Len(scall[t].snap) = NumStripes
    /\ LET c == scall[t]
       IN  IF c.i >= SumSeq(c.snap)
              THEN /\ sret' = [sret EXCEPT ![t] = OutOfRange]
                   /\ scall' = [scall EXCEPT ![t] = SCall("get", c.i, <<>>)]
                   /\ spc' = [spc EXCEPT ![t] = "idle"]
              ELSE /\ scall' = [scall EXCEPT ![t].seg = Locate(c.snap, c.i).seg,
                                              ![t].off = Locate(c.snap, c.i).off]
                   /\ spc' = [spc EXCEPT ![t] = "get_lock"]
                   /\ UNCHANGED sret
    /\ UNCHANGED <<stripes_, segments_, counts_, counter_, cached_, dirty_>>
    /\ UNCHANGED nonStripedVars

\* The shared lock of the segment is taken.
SGetLock(t) ==
    /\ spc[t] = "get_lock"
    /\ MutexSharable(stripes_[StripeOf(scall[t].seg)])
    /\ stripes_' = [stripes_ EXCEPT ![StripeOf(scall[t].seg)] = Inc(@)]
    /\ spc' = [spc EXCEPT ![t] = "get_read"]
    /\ UNCHANGED <<segments_, counts_, counter_, cached_, dirty_, scall, sret>>
    /\ UNCHANGED nonStripedVars

\* The element at the offset is read (a bounds-checked read), the shared
\* lock is released and the call returns.
SGetRead(t) ==
    /\ spc[t] = "get_read"
    /\ LET c == scall[t]
       IN  sret' = [sret EXCEPT ![t] =
                       IF c.off < Len(segments_[c.seg])
                          THEN Result("value", <<segments_[c.seg][c.off + 1]>>)
                          ELSE OutOfRange]
    /\ stripes_' = [stripes_ EXCEPT ![StripeOf(scall[t].seg)] = Released("shared", @)]
    /\ scall' = [scall EXCEPT ![t] = SCall("get", scall[t].i, <<>>)]
    /\ spc' = [spc EXCEPT ![t] = "idle"]
    /\ UNCHANGED <<segments_, counts_, counter_, cached_, dirty_>>
    /\ UNCHANGED nonStripedVars

\* The steps of thread t inside get(i).
SGetStep(t) ==
    \/ SReadCount(t)
    \/ SGetFind(t)
    \/ SGetLock(t)
    \/ SGetRead(t)

\* Thread t enters clear().
SClearCall(t) ==
    /\ spc[t] = "idle"
    /\ scall' = [scall EXCEPT ![t] = SCall("clear", 0, <<>>)]
    /\ spc' = [spc EXCEPT ![t] = "clear_lock"]
    /\ sret' = [sret EXCEPT ![t] = NoResult]
    /\ UNCHANGED <<stripes_, segments_, counts_, counter_, cached_, dirty_>>
    /\ UNCHANGED nonStripedVars

\* The segment whose lock clear(), called by thread t, takes after k others.
ClearOrderByThread(t, k) == IF t = 1 THEN k ELSE NumStripes - 1 - k

ClearOrder(t, k) == k

\* clear() takes the exclusive locks of the segments in ascending order;
\* scall[t].k of them are held.
SClearLock(t) ==
    /\ spc[t] = "clear_lock"
    /\ LET c == scall[t]
       IN  IF c.k < NumStripes
              THEN /\ MutexLockable(stripes_[StripeOf(ClearOrder(t, c.k))])
                   /\ stripes_' = [stripes_ EXCEPT ![StripeOf(ClearOrder(t, c.k))] =
                                      WRITER_MASK]
                   /\ scall' = [scall EXCEPT ![t].k = c.k + 1]
                   /\ UNCHANGED spc
              ELSE /\ scall' = [scall EXCEPT ![t].k = 0]
                   /\ spc' = [spc EXCEPT ![t] = "clear_seg"]
                   /\ UNCHANGED stripes_
    /\ UNCHANGED <<segments_, counts_, counter_, cached_, dirty_, sret>>
    /\ UNCHANGED nonStripedVars

\* With every lock held, the next segment is emptied and its count reset;
\* after the last one the cached total is invalidated.
SClearSeg(t) ==
    /\ spc[t] = "clear_seg"
    /\ LET c == scall[t]
       IN  IF c.k < NumStripes
              THEN /\ segments_' = [segments_ EXCEPT ![c.k] = <<>>]
                   /\ counts_' = [counts_ EXCEPT ![c.k] = 0]
                   /\ scall' = [scall EXCEPT ![t].k = c.k + 1]
                   /\ UNCHANGED <<spc, dirty_>>
              ELSE /\ dirty_' = TRUE
                   /\ spc' = [spc EXCEPT ![t] = "clear_unlock"]
                   /\ UNCHANGED <<segments_, counts_, scall>>
    /\ UNCHANGED <<stripes_, counter_, cached_, sret>>
    /\ UNCHANGED nonStripedVars

\* The locks are released and clear() returns.
SClearUnlock(t) ==
    /\ spc[t] = "clear_unlock"
    /\ stripes_' = [s \in Stripes |-> Released("excl", stripes_[s])]
    /\ scall' = [scall EXCEPT ![t] = NoSCall]
    /\ spc' = [spc EXCEPT ![t] = "idle"]
    /\ sret' = [sret EXCEPT ![t] = Void]
    /\ UNCHANGED <<segments_, counts_, counter_, cached_, dirty_>>
    /\ UNCHANGED nonStripedVars

\* The steps of thread t inside clear().
SClearStep(t) ==
    \/ SClearLock(t)
    \/ SClearSeg(t)
    \/ SClearUnlock(t)

\* Thread t enters for_each_concurrent(fn); fn records what it is given in
\* scall[t].acc, and scall[t].snap lists the segments whose worker is done.
SForEachCall(t) ==
    /\ spc[t] = "idle"
    /\ scall' = [scall EXCEPT ![t] = SCall("for_each_concurrent", 0, <<>>)]
    /\ spc' = [spc EXCEPT ![t] = "visit"]
    /\ sret' = [sret EXCEPT ![t] = NoResult]
    /\ UNCHANGED <<stripes_, segments_, counts_, counter_, cached_, dirty_>>
    /\ UNCHANGED nonStripedVars

\* A traversal whose worker for segment s is handed the elements of
\* segment 0.
VisitedFirst(s) == segments_[0]

\* What the worker for segment s applies fn to.
Visited(s) == segments_[s]

\* The segments whose worker has run.
WorkersDone(t) == {scall[t].snap[n] : n \in 1..Len(scall[t].snap)}

\* The worker of some segment s runs: under the shared lock of s it applies
\* fn to the elements of s.  The workers run in no particular order.
SVisit(t) ==
    /\ spc[t] = "visit"
    /\ \E s \in Stripes \ WorkersDone(t) :
          /\ MutexSharable(stripes_[StripeOf(s)])
          /\ scall' = [scall EXCEPT ![t].acc = @ \o Visited(s),
                                    ![t].snap = @ \o <<s>>]
    /\ UNCHANGED <<stripes_, segments_, counts_, counter_, cached_, dirty_, spc, sret>>
    /\ UNCHANGED nonStripedVars

\* Every worker is done: for_each_concurrent returns.
SForEachDone(t) ==
    /\ spc[t] = "visit"
    /\ WorkersDone(t) = Stripes
    /\ sret' = [sret EXCEPT ![t] = Result("visited", scall[t].acc)]
    /\ scall' = [scall EXCEPT ![t] = NoSCall]
    /\ spc' = [spc EXCEPT ![t] = "idle"]
    /\ UNCHANGED <<stripes_, segments_, counts_, counter_, cached_, dirty_>>
    /\ UNCHANGED nonStripedVars

\* The steps of thread t inside for_each_concurrent.
SForEachStep(t) ==
    \/ SVisit(t)
    \/ SForEachDone(t)

(***************************************************************************)
(* test_push_back on the striped array (main: arr4): worker t pushes the   *)
(* values PushFirst(t) .. PushLast(t) - 1.  Once every worker has been     *)
(* joined, the array is read: size() and a full traversal.                 *)
(***************************************************************************)
\* The number of elements of the sequence q that are in the set S.
CountIn(q, S) == Cardinality({n \in 1..Len(q) : q[n] \in S})

\* The number of values of worker t that are in the array or on their way.
StressPushed(t) ==
    SumSeq([n \in 1..NumStripes |->
               CountIn(segments_[n - 1], PushFirst(t)..(PushLast(t) - 1))])
    + (IF spc[t] \in {"wlock", "append"} THEN 1 ELSE 0)

StressDone == \A t \in ArrThreads : spc[t] = "idle" /\ StressPushed(t) = PerThread

StressInit == LockIdle /\ ArrIdle /\ StripedFresh

\* The next push_back of worker t.
StressPush(t) ==
    /\ StressPushed(t) < PerThread
    /\ SAppendCall(t, "push_back", <<PushFirst(t) + StressPushed(t)>>)

\* With the workers joined, the main thread (thread 1 here) reads the
\* array.
StressRead(t) ==
    /\ t = 1
    /\ StressDone
    /\ (SSizeCall(t) \/ SForEachCall(t))

StressNext ==
    \E t \in ArrThreads :
        \/ StressPush(t)
        \/ SWriteStep(t)
        \/ StressRead(t)
        \/ SSizeStep(t)
        \/ SForEachStep(t)

SpecStress == StressInit /\ [][StressNext]_vars

(***************************************************************************)
(* One thread uses the striped array alone: push_back of the values 0, 1,  *)
(* ... (the n-th push_back pushes n - 1), with size() and get(i) calls in  *)
(* between, each call returning before the next one starts.                *)
(***************************************************************************)
\* The counts as get() and size() read them when nothing else runs.
CountsNow == [n \in 1..NumStripes |-> counts_[n - 1]]

\* What get(i) returns when it runs alone from the current state.
GetNow(i) ==
    IF i >= SumSeq(CountsNow)
       THEN OutOfRange
       ELSE LET l == Locate(CountsNow, i)
            IN  IF l.off < Len(segments_[l.seg])
                   THEN Result("value", <<segments_[l.seg][l.off + 1]>>)
                   ELSE OutOfRange

\* What size() returns when it runs alone from the current state.
SizeNow == IF dirty_ THEN SumSeq(CountsNow) ELSE cached_

AloneInit == LockIdle /\ ArrIdle /\ StripedFresh

AloneCall ==
    \/ /\ counter_ < MaxLen
       /\ SAppendCall(1, "push_back", <<counter_>>)
    \/ SSizeCall(1)
    \/ \E i \in Indices : SGetCall(1, i)

AloneNext ==
    \/ AloneCall
    \/ SWriteStep(1)
    \/ SSizeStep(1)
    \/ SGetStep(1)

SpecAlone == AloneInit /\ [][AloneNext]_vars

(***************************************************************************)
(* Index resolution on a quiescent striped array: one thread builds the    *)
(* array with push_back, insert_range (empty ranges too) and clear, at     *)
(* most MaxCalls appends, and reads it with get(i).                        *)
(***************************************************************************)
\* The logical array: the segments' elements in stripe-index order.
RECURSIVE ConcatFrom(_)
ConcatFrom(s) == IF s >= NumStripes THEN <<>> ELSE segments_[s] \o ConcatFrom(s + 1)

Logical == ConcatFrom(0)

ResolveCall ==
    \/ \E v \in Ranges :
          /\ counter_ < MaxCalls
          /\ TotalElements + Len(v) <= MaxLen
          /\ SAppendCall(1, IF Len(v) = 1 THEN "push_back" ELSE "insert_range", v)
    \/ SClearCall(1)
    \/ \E i \in Indices : SGetCall(1, i)

ResolveNext ==
    \/ ResolveCall
    \/ SWriteStep(1)
    \/ SClearStep(1)
    \/ SGetStep(1)

SpecResolve == AloneInit /\ [][ResolveNext]_vars

(***************************************************************************)
(* get(i) against writers that only append: every thread calls push_back  *)
(* and insert_range as it likes, at most MaxCalls appends and MaxLen       *)
(* elements in all, and thread 1 also calls get.  Thread t appends its own *)
(* number.                                                                 *)
(***************************************************************************)
\* The elements the appends in progress have still to add.
SPending ==
    SumOver(ArrThreads,
            [t \in ArrThreads |->
                IF spc[t] \in {"wlock", "append"} THEN Len(scall[t].v) - scall[t].k ELSE 0])

RaceCall(t) ==
    \/ \E n \in 1..MaxRange :
          /\ counter_ < MaxCalls
          /\ TotalElements + SPending + n <= MaxLen
          /\ SAppendCall(t, IF n = 1 THEN "push_back" ELSE "insert_range",
                         [j \in 1..n |-> t])
    \/ \E i \in 0..(MaxLen - 1) :
          /\ t = 1
          /\ SGetCall(t, i)

RaceNext ==
    \E t \in ArrThreads :
        \/ RaceCall(t)
        \/ SWriteStep(t)
        \/ SGetStep(t)

SpecRace == AloneInit /\ [][RaceNext]_vars

(***************************************************************************)
(* The cached size: every thread calls push_back, insert_range, clear and  *)
(* size() as it likes, at most MaxCalls appends and MaxLen elements at a   *)
(* time.                                                                   *)
(***************************************************************************)
CacheCall(t) ==
    \/ \E n \in 1..MaxRange :
          /\ counter_ < MaxCalls
          /\ TotalElements + SPending + n <= MaxLen
          /\ SAppendCall(t, IF n = 1 THEN "push_back" ELSE "insert_range",
                         [j \in 1..n |-> t])
    \/ SClearCall(t)
    \/ SSizeCall(t)

CacheNext ==
    \E t \in ArrThreads :
        \/ CacheCall(t)
        \/ SWriteStep(t)
        \/ SClearStep(t)
        \/ SSizeStep(t)

SpecCache == AloneInit /\ [][CacheNext]_vars

\* No operation on the striped array is in progress.
Quiescent == \A t \in ArrThreads : spc[t] = "idle"

(***************************************************************************)
(* StripedSharedMutex used on its own: a thread takes stripe(i) for some   *)
(* index i and locks and unlocks that mutex, or asks stripe_index for the  *)
(* stripe of a key.  std::hash is implementation-defined: the hash of a    *)
(* key is any value, here one with low and high 16-bit halves up to        *)
(* MaxIndex.                                                               *)
(***************************************************************************)
MaxIndex == 5

StripeArgs == 0..MaxIndex

Hashes == {h * 65536 + l : h \in 0..MaxIndex, l \in 0..MaxIndex}

\* UnderlyingMutex& m = striped.stripe(i); m.lock() is to follow.
StripeCall(t) ==
    /\ spc[t] = "idle"
    /\ \E i \in StripeArgs :
          scall' = [scall EXCEPT ![t] = [SCall("stripe", i, <<>>) EXCEPT !.seg = StripeOf(i)]]
    /\ spc' = [spc EXCEPT ![t] = "stripe_lock"]
    /\ sret' = [sret EXCEPT ![t] = NoResult]
    /\ UNCHANGED <<stripes_, segments_, counts_, counter_, cached_, dirty_>>
    /\ UNCHANGED nonStripedVars

\* m.lock()
StripeLock(t) ==
    /\ spc[t] = "stripe_lock"
    /\ MutexLockable(stripes_[scall[t].seg])
    /\ stripes_' = [stripes_ EXCEPT ![scall[t].seg] = WRITER_MASK]
    /\ spc' = [spc EXCEPT ![t] = "stripe_held"]
    /\ UNCHANGED <<segments_, counts_, counter_, cached_, dirty_, scall, sret>>
    /\ UNCHANGED nonStripedVars

\* m.unlock()
StripeUnlock(t) ==
    /\ spc[t] = "stripe_held"
    /\ stripes_' = [stripes_ EXCEPT ![scall[t].seg] = Released("excl", @)]
    /\ spc' = [spc EXCEPT ![t] = "idle"]
    /\ sret' = [sret EXCEPT ![t] = Void]
    /\ scall' = [scall EXCEPT ![t] = NoSCall]
    /\ UNCHANGED <<segments_, counts_, counter_, cached_, dirty_>>
    /\ UNCHANGED nonStripedVars

\* striped.stripe_index(key), and striped.stripes() with it.
StripeIndexCall(t) ==
    /\ spc[t] = "idle"
    /\ \E h \in Hashes :
          /\ scall' = [scall EXCEPT ![t] = NoSCall]
          /\ sret' = [sret EXCEPT ![t] = Result("index", <<StripeIndex(h), StripeCount>>)]
    /\ UNCHANGED <<stripes_, segments_, counts_, counter_, cached_, dirty_, spc>>
    /\ UNCHANGED nonStripedVars

StripeNext ==
    \E t \in ArrThreads :
        \/ StripeCall(t)
        \/ StripeLock(t)
        \/ StripeUnlock(t)
        \/ StripeIndexCall(t)

SpecStripe == AloneInit /\ [][StripeNext]_vars

(***************************************************************************)
(* ThreadSafeArray<T, NullSharedMutex> called by several threads at once:  *)
(* the `if constexpr` branches build no lock object, so the calls run on   *)
(* data_ with nothing between them.  For an append in progress the field j *)
(* of the call (no append has a second index argument) notes whether any   *)
(* other call was in progress at some moment of this one: 1 if so, else 0. *)
(* loop[t] counts the calls thread t has made.                             *)
(***************************************************************************)
NullInit == LockIdle /\ strategy = "null" /\ ArrFresh /\ StripedFresh

NullCalls(t) ==
    {Call(op, 1, 0, 0, <<t>>) : op \in {"try_push_back", "try_emplace_back"}}

\* Thread t enters a call, one of at most MaxCalls; every call in progress
\* now overlaps another.
NullCall(t) ==
    /\ apc[t] = "idle"
    /\ CallsMade < MaxCalls
    /\ loop' = [loop EXCEPT ![t] = loop[t] + 1]
    /\ \E c \in NullCalls(t) :
          /\ Fits(c)
          /\ acall' =
                [u \in ArrThreads |->
                    IF u = t
                       THEN [c EXCEPT !.j = IF \E w \in ArrThreads \ {t} : apc[w] # "idle"
                                               THEN 1 ELSE 0]
                    ELSE IF apc[u] # "idle" THEN [acall[u] EXCEPT !.j = 1]
                    ELSE acall[u]]
    /\ apc' = [apc EXCEPT ![t] = "acquire"]
    /\ aret' = [aret EXCEPT ![t] = NoResult]
    /\ pre' = [pre EXCEPT ![t] = <<>>]
    /\ UNCHANGED <<strategy, data_, mutex_, aown, ref, refret, retry, snap>>
    /\ UNCHANGED nonArrVars

NullNext ==
    \E t \in ArrThreads :
        \/ NullCall(t)
        \/ Acquire(t)
        \/ BodyStep(t)
        \/ Release(t)

SpecNull == NullInit /\ [][NullNext]_vars

\* Thread t's try_push_back / try_emplace_back puts its element in place
\* with this step.
TryWrites(t) ==
    /\ acall[t].op \in TryOps
    /\ apc[t] = "body"
    /\ acall[t].k = 0
    /\ acall'[t].k = 1

\* No operation of the null mutex does anything, and the try operations of
\* the array return true.
NullNoOp ==
    /\ \A a \in Arrays : mutex_[a] = Zero
    /\ \A t \in ArrThreads :
          /\ aown[t] = "none"
          /\ apc[t] = "acquire" => ENABLED Acquire(t)
          /\ (acall[t].op \in TryOps /\ apc[t] \in {"release", "idle"}) =>
                aret[t] = Bool(TRUE)

(***************************************************************************)
(* Writers of the striped array together: every thread calls push_back,    *)
(* insert_range and clear as it likes, at most MaxCalls appends and MaxLen *)
(* elements at a time.                                                     *)
(***************************************************************************)
CountCall(t) ==
    \/ \E n \in 1..MaxRange :
          /\ counter_ < MaxCalls
          /\ TotalElements + SPending + n <= MaxLen
          /\ SAppendCall(t, IF n = 1 THEN "push_back" ELSE "insert_range",
                         [j \in 1..n |-> t])
    \/ SClearCall(t)

CountNext ==
    \E t \in ArrThreads :
        \/ CountCall(t)
        \/ SWriteStep(t)
        \/ SClearStep(t)

SpecCount == AloneInit /\ [][CountNext]_vars

\* Thread t holds the exclusive lock of segment s.
HoldsStripe(t, s) ==
    \/ spc[t] \in {"append", "count", "mark", "wunlock"} /\ StripeOf(scall[t].seg) = s
    \/ spc[t] = "clear_lock" /\ \E j \in 0..(scall[t].k - 1) : StripeOf(ClearOrder(t, j)) = s
    \/ spc[t] \in {"clear_seg", "clear_unlock"}

(***************************************************************************)
(* clear() among other calls on the striped array: every thread calls      *)
(* clear, push_back and get as it likes, at most NumStripes appends and    *)
(* MaxLen elements at a time.                                              *)
(***************************************************************************)
ClearCall(t) ==
    \/ /\ counter_ < NumStripes
       /\ TotalElements + SPending + 1 <= MaxLen
       /\ SAppendCall(t, "push_back", <<0>>)
    \/ SClearCall(t)
    \/ SGetCall(t, 0)

\* The steps inside the calls of thread t.
ClearStep(t) ==
    \/ SWriteStep(t)
    \/ SClearStep(t)
    \/ SGetStep(t)

ClearNext ==
    \E t \in ArrThreads :
        \/ ClearCall(t)
        \/ ClearStep(t)

SpecClear == AloneInit /\ [][ClearNext]_vars

\* Thread t is inside a call and cannot take its next step: it waits for a
\* lock.
Blocked(t) == spc[t] # "idle" /\ ~ENABLED ClearStep(t)

\* The segment whose lock thread t is about to take.
WaitsFor(t) ==
    IF spc[t] = "clear_lock" THEN StripeOf(ClearOrder(t, scall[t].k))
    ELSE StripeOf(scall[t].seg)

\* Thread t holds the lock of segment s, exclusively or shared.
HoldsLock(t, s) ==
    \/ HoldsStripe(t, s)
    \/ spc[t] = "get_read" /\ StripeOf(scall[t].seg) = s

(***************************************************************************)
(* Who holds the mutex: a thread holds it from the return of its acquiring *)
(* call to its releasing call.                                             *)
(***************************************************************************)
HoldsExclusive(t) == lpc[t] = "held_x"

HoldsShared(t) == lpc[t] = "held_s"

InLockShared(t) == lpc[t] \in {"ls_load", "ls_wait", "ls_cas"}

NoExclusiveHolder == \A u \in LockThreads : ~HoldsExclusive(u)

\* C1: SpinSharedMutex mutual exclusion: in every reachable state a thread
\* that holds the lock exclusively is the only holder: no other thread
\* holds it exclusively and none holds it shared.
C1_MutualExclusion ==
    \A t \in LockThreads :
        HoldsExclusive(t) =>
            \A u \in LockThreads \ {t} : ~HoldsExclusive(u) /\ ~HoldsShared(u)

\* C1 witness: one thread holds exclusively while a second one waits in
\* lock()'s spin loop and a third one waits in lock_shared()'s loop.
C1_Witness ==
    \E t, u, v \in LockThreads :
        /\ HoldsExclusive(t)
        /\ lpc[u] = "lock_spin" /\ lspin[u] > 0
        /\ lpc[v] = "ls_wait"

\* C2: shared mode.  (a) A thread inside lock_shared() that steps while no
\* exclusive holder exists never enters the waiting loop: it is at the CAS
\* or holds shared, whatever shared holders exist; and at the CAS with an
\* up-to-date `current` its acquisition is possible at once.  (b) While
\* some thread holds shared, no step makes a thread an exclusive holder
\* (no lock() returns, no try_lock() returns true).
C2_SharedMode ==
    /\ [](\A t \in LockThreads :
            (lpc[t] = "ls_cas" /\ NoExclusiveHolder /\ lcur[t] = state_)
                => ENABLED LockSharedCasOk(t))
    /\ [][ /\ \A t \in LockThreads :
                (/\ InLockShared(t)
                 /\ NoExclusiveHolder
                 /\ LockSharedLoad(t) \/ LockSharedWait(t) \/ LockSharedCas(t))
                    => lpc'[t] \in {"ls_cas", "held_s"}
           /\ (\E u \in LockThreads : HoldsShared(u))
                => \A t \in LockThreads :
                      ~(~HoldsExclusive(t) /\ lpc'[t] = "held_x") ]_vars

\* C2 witness: two threads hold shared at once while a third is kept in
\* lock()'s spin loop and has already counted a failed look at state_.
C2_Witness ==
    \E t, u, v \in LockThreads :
        /\ t # u
        /\ HoldsShared(t) /\ HoldsShared(u)
        /\ lpc[v] = "lock_spin" /\ lspin[v] > 0

\* The call thread t has completed last.
Completed(t, op) == apc[t] = "idle" /\ acall[t].op = op

\* Thread t's call has run its critical section: its result is decided and
\* its lock object is about to be destroyed.
Leaving(t, op) == apc[t] = "release" /\ acall[t].op = op

\* Thread t has left its call with every lock released.
LockReleased(t) == aown[t] = "none" /\ mutex_[acall[t].arr] = Zero

\* C3: whenever the single thread is between two operations, the array
\* holds the same contents as the unsynchronized ordered sequence given the
\* same operations, and its last operation returned the same result, under
\* each of the three lock strategies.
C3_SameAsSequence ==
    apc[1] = "idle" => (data_[1] = ref /\ aret[1] = refret)

\* C3 witness: under SpinSharedMutex a find on a full array has completed
\* and returned the last index.
C3_Witness ==
    /\ strategy = "spin"
    /\ Completed(1, "find")
    /\ Len(data_[1]) = MaxLen
    /\ aret[1] = Result("index", <<MaxLen - 1>>)

\* C9: get(i) throws OutOfRange if i >= the size at its access (so for
\* i = size, i = size + 1 and on an empty array) and returns the element
\* at index i otherwise, leaving the sequence as it was; once it has
\* returned or thrown, the sequence is still that and the shared lock is
\* released.
C9_Get ==
    /\ Leaving(1, "get") =>
          /\ aret[1] = IF acall[1].i >= Len(pre[1]) THEN OutOfRange
                        ELSE Result("value", <<pre[1][acall[1].i + 1]>>)
          /\ data_[1] = pre[1]
    /\ Completed(1, "get") => (LockReleased(1) /\ data_[1] = ref)

\* C9 witness: get(size()) on a non-empty array guarded by a real lock has
\* thrown OutOfRange.
C9_Witness ==
    /\ strategy \in RealStrategies
    /\ Completed(1, "get")
    /\ Len(data_[1]) > 0
    /\ acall[1].i = Len(data_[1])
    /\ aret[1] = OutOfRange

\* C10: set(i, v) throws OutOfRange and leaves every element and the size
\* unchanged if i >= size; otherwise it replaces exactly the element at i,
\* leaving the others and the size unchanged; once it has returned or
\* thrown, the exclusive lock is released.
C10_Set ==
    /\ Leaving(1, "set") =>
          IF acall[1].i >= Len(pre[1])
             THEN aret[1] = OutOfRange /\ data_[1] = pre[1]
             ELSE /\ aret[1] = Void
                  /\ Len(data_[1]) = Len(pre[1])
                  /\ \A n \in 1..Len(pre[1]) :
                        data_[1][n] = IF n = acall[1].i + 1 THEN acall[1].v[1]
                                      ELSE pre[1][n]
    /\ Completed(1, "set") => LockReleased(1)

\* C10 witness: set(size(), v) on a non-empty array guarded by a real lock
\* has thrown OutOfRange.
C10_Witness ==
    /\ strategy \in RealStrategies
    /\ Completed(1, "set")
    /\ Len(data_[1]) > 0
    /\ acall[1].i = Len(data_[1])
    /\ aret[1] = OutOfRange

InTry(t) == acall[t].op = "try_push_back"

\* C4: try_push_back never blocks (its lock attempt can always be made);
\* made while another thread holds the lock it returns false, takes nothing
\* and leaves the sequence as it is, and no later step of a call that
\* returned false changes the sequence; a call that returns true holds the
\* lock exclusively and has appended exactly its value.
C4_TryPushBack ==
    /\ [](\A t \in ArrThreads :
            (InTry(t) /\ apc[t] = "acquire") => ENABLED Acquire(t))
    /\ [](\A t \in ArrThreads :
            (InTry(t) /\ apc[t] = "release") =>
                IF aret[t] = Bool(TRUE)
                   THEN /\ aown[t] = "excl"
                        /\ data_[1] = Append(pre[t], acall[t].v[1])
                   ELSE aret[t] = Bool(FALSE) /\ aown[t] = "none")
    /\ [][\A t \in ArrThreads :
            /\ (/\ InTry(t) /\ apc[t] = "acquire" /\ apc'[t] # "acquire"
                 /\ \E u \in ArrThreads \ {t} : aown[u] # "none")
                  => /\ aret'[t] = Bool(FALSE)
                     /\ apc'[t] = "release"
                     /\ data_' = data_ /\ mutex_' = mutex_
            /\ (InTry(t) /\ aret[t] = Bool(FALSE) /\ apc'[t] # apc[t])
                  => data_' = data_ ]_vars

\* C4 witness: a try_push_back has returned false while another thread is
\* inside its push_back and holds the lock exclusively.
C4_Witness ==
    \E t, u \in ArrThreads :
        /\ Completed(t, "try_push_back") /\ aret[t] = Bool(FALSE)
        /\ apc[u] = "body" /\ aown[u] = "excl" /\ acall[u].op = "push_back"

\* C5: a try_push_back that retries one that returned false, and makes its
\* lock attempt when the lock is free (released, and taken by no other
\* thread), takes the lock; having taken it, it returns true with the size
\* one larger than at its attempt.
C5_RetrySucceeds ==
    /\ [][\A t \in ArrThreads :
            (/\ InTry(t) /\ retry[t]
             /\ apc[t] = "acquire" /\ apc'[t] # "acquire"
             /\ mutex_[1] = Zero)
              => (apc'[t] = "body" /\ aown'[t] = "excl") ]_vars
    /\ [](\A t \in ArrThreads :
            (InTry(t) /\ retry[t] /\ apc[t] = "release" /\ aown[t] = "excl") =>
                /\ aret[t] = Bool(TRUE)
                /\ Len(data_[1]) = Len(pre[t]) + 1)

\* C5 witness: a retry of a try_push_back that had returned false has
\* returned true.
C5_Witness ==
    \E t \in ArrThreads :
        Completed(t, "try_push_back") /\ retry[t] /\ aret[t] = Bool(TRUE)

\* The positions (1-based) of value x in sequence d.
Positions(d, x) == {n \in 1..Len(d) : d[n] = x}

\* C6: T threads push PerThread distinct values each through push_back on
\* one array guarded by std::shared_mutex or SpinSharedMutex.  Every call
\* returns: all workers eventually finish, and until then some step can be
\* taken; when all have finished the size is T * PerThread, every pushed
\* value occurs exactly once, and the values of each thread appear in the
\* order the thread pushed them.
C6_ConcurrentPush ==
    /\ <>AllPushed
    /\ [](~AllPushed => ENABLED PushNext)
    /\ [](AllPushed =>
            /\ Len(data_[1]) = PushN
            /\ \A x \in 0..(PushN - 1) : Cardinality(Positions(data_[1], x)) = 1
            /\ \A t \in ArrThreads :
                  \A x, y \in PushFirst(t)..(PushLast(t) - 1) :
                      x < y =>
                          \A n \in Positions(data_[1], x),
                             m \in Positions(data_[1], y) : n < m)

\* C6 witness: all workers have finished and the pushes were interleaved:
\* the first element was pushed by the second worker, the second by the
\* first.
C6_Witness ==
    /\ AllPushed
    /\ data_[1][1] = PushFirst(2)
    /\ data_[1][2] = PushFirst(1)

\* Sequence d consists of whole batches, each in range order.
WholeBatches(d) ==
    /\ Len(d) % BatchSize = 0
    /\ \A n \in 1..Len(d) :
          IF n % BatchSize = 1 \/ BatchSize = 1
             THEN d[n] % BatchSize = 0
             ELSE d[n] = d[n - 1] + 1

\* C7: insert_range is one atomic batch.  What a concurrent size(),
\* to_vector() or get(i) reads is the array with each batch either absent
\* or complete: the size is a multiple of the batch size, the copy consists
\* of whole batches, get answers from such a sequence.  Whenever no thread
\* holds the lock exclusively the array consists of whole batches, and when
\* all batches are in, each is contiguous and in range order and the size
\* is T * BatchSize.
C7_AtomicBatch ==
    /\ \A t \in ArrThreads :
          /\ Leaving(t, "size") =>
                (aret[t].val[1] % BatchSize = 0 /\ aret[t].val[1] = Len(pre[t]))
          /\ Leaving(t, "to_vector") =>
                (WholeBatches(aret[t].val) /\ aret[t].val = pre[t])
          /\ Leaving(t, "get") =>
                /\ WholeBatches(pre[t])
                /\ aret[t] = IF acall[t].i < Len(pre[t])
                                THEN Result("value", <<pre[t][acall[t].i + 1]>>)
                                ELSE OutOfRange
    /\ (\A t \in ArrThreads : aown[t] # "excl") => WholeBatches(data_[1])
    /\ AllInserted =>
          /\ Len(data_[1]) = BatchN
          /\ \A x \in 0..(BatchN - 1) : Cardinality(Positions(data_[1], x)) = 1

\* C7 witness: a size() holds the shared lock and has read the size of
\* exactly one batch, the second worker's, while the first worker waits
\* for the lock with its batch.
C7_Witness ==
    \E t \in ArrThreads :
        /\ Leaving(t, "size")
        /\ aret[t].val = <<BatchSize>>
        /\ data_[1][1] = BatchFirst(2)
        /\ apc[1] = "acquire" /\ acall[1].op = "insert_range"

\* The two arrays hold the two contents, one each.
SwapConsistent ==
    \/ (data_[1] = ContentsA /\ data_[2] = ContentsB)
    \/ (data_[1] = ContentsB /\ data_[2] = ContentsA)

\* Thread t's last call was a swap of the two different arrays.
LastWasSwap(t) == acall[t].op = "swap" /\ acall[t].arr # acall[t].i

C11_Erase ==
    /\ Leaving(1, "erase") =>
          /\ aret[1] = Void
          /\ IF acall[1].i < Len(pre[1])
                THEN /\ Len(data_[1]) = Len(pre[1]) - 1
                     /\ \A n \in 1..Len(data_[1]) :
                           data_[1][n] = IF n <= acall[1].i THEN pre[1][n]
                                         ELSE pre[1][n + 1]
                     /\ acall[1].i < Len(data_[1]) =>
                           VecAt(data_[1], acall[1].i)
                               = Result("value", <<pre[1][acall[1].i + 2]>>)
                ELSE data_[1] = pre[1]
    /\ Completed(1, "erase") => (LockReleased(1) /\ data_[1] = ref)

\* C11 witness: erase(0) on a full array whose second and third elements
\* differ from the first has removed the first element.
C11_Witness ==
    /\ strategy \in RealStrategies
    /\ Leaving(1, "erase")
    /\ acall[1].i = 0
    /\ Len(pre[1]) = MaxLen
    /\ pre[1][1] # pre[1][2]
    /\ Len(data_[1]) = MaxLen - 1

\* C12: erase_range(first, last) with first < last <= size removes exactly
\* the elements at the indices in [first, last) and keeps the rest in
\* order; with first >= last or last > size it changes nothing; either way
\* it returns normally and the exclusive lock is released afterwards.
C12_EraseRange ==
    /\ Leaving(1, "erase_range") =>
          /\ aret[1] = Void
          /\ LET first == acall[1].i
                 last == acall[1].j
             IN  IF first < last /\ last <= Len(pre[1])
                    THEN /\ Len(data_[1]) = Len(pre[1]) - (last - first)
                         /\ \A n \in 1..Len(data_[1]) :
                               data_[1][n] = IF n <= first THEN pre[1][n]
                                             ELSE pre[1][n + (last - first)]
                    ELSE data_[1] = pre[1]
    /\ Completed(1, "erase_range") => (LockReleased(1) /\ data_[1] = ref)

\* C12 witness: erase_range(1, 3) on an array of at least three elements
\* has removed the second and third and kept the first, which differs from
\* the second.
C12_Witness ==
    /\ Leaving(1, "erase_range")
    /\ acall[1].i = 1 /\ acall[1].j = 3
    /\ Len(pre[1]) >= 3
    /\ pre[1][1] # pre[1][2]
    /\ Len(data_[1]) = Len(pre[1]) - 2

\* C13: with one thread, after to_vector() the copy equals the original
\* sequence; after the clear() that follows the array is empty and the
\* copy is still the original; after insert_range(copy) the array is
\* exactly the original sequence again (same elements, order and size).
C13_RoundTrip ==
    /\ (loop[1] = 1 /\ apc[1] = "idle") =>
          (aret[1] = Result("vector", ref) /\ data_[1] = ref)
    /\ loop[1] \in {2, 3} => snap = ref
    /\ (loop[1] = 2 /\ apc[1] = "idle") => data_[1] = <<>>
    /\ (loop[1] = 3 /\ apc[1] = "idle") => data_[1] = ref

\* C13 witness: under a real lock a round trip of a full array whose first
\* two elements differ has completed.
C13_Witness ==
    /\ strategy \in RealStrategies
    /\ loop[1] = 3 /\ Completed(1, "insert_range")
    /\ Len(snap) = MaxLen
    /\ snap[1] # snap[2]
    /\ Len(data_[1]) = MaxLen

\* C14: no handle into the array's storage outlives its critical section:
\* a thread reads element storage through the reference emplace_back
\* returned, or through an iterator begin() / end() returned, only while
\* it holds the lock, and so never while another thread is mutating the
\* sequence.
C14_NoHandleOutlives ==
    \A t \in ArrThreads :
        apc[t] = "deref" =>
            /\ aown[t] # "none"
            /\ \A u \in ArrThreads \ {t} : ~Mutating(u)

\* C15: conditional_action is check-then-act atomic.  From the evaluation
\* of pred to the end of action the sequence is what the call found, plus
\* what the call itself has put in place; the call acts exactly if pred
\* held on the sequence it found, and then the sequence is that one with
\* the action applied; otherwise it is left as found.
C15_CheckThenAct ==
    \A t \in ArrThreads :
        /\ apc[t] \in {"cond_check", "cond_act"} => data_[1] = pre[t]
        /\ Leaving(t, "conditional_action") =>
              IF CondPred(pre[t], acall[t].v[1])
                 THEN /\ aret[t] = Bool(TRUE)
                      /\ data_[1] = pre[t] \o acall[t].v
                 ELSE /\ aret[t] = Bool(FALSE)
                      /\ data_[1] = pre[t]

\* C15 witness: a conditional_action has found its value absent and has
\* appended it to a non-empty array while another thread waits to do the
\* same with the same value.
C15_Witness ==
    \E t, u \in ArrThreads :
        /\ t # u
        /\ Leaving(t, "conditional_action")
        /\ aret[t] = Bool(TRUE)
        /\ Len(pre[t]) > 0
        /\ apc[u] = "cond_acquire"
        /\ acall[u].v = acall[t].v

\* C16: when the workers have each pushed their PerThread distinct values
\* into the striped array and no read ran meanwhile, size() returns
\* NumArrThreads * PerThread and a full traversal with for_each_concurrent
\* visits that many elements, every pushed value exactly once.
C16_Stress ==
    \A t \in ArrThreads :
        /\ (spc[t] = "idle" /\ sret[t].kind = "size") => sret[t].val = <<PushN>>
        /\ (spc[t] = "idle" /\ sret[t].kind = "visited") =>
              /\ Len(sret[t].val) = PushN
              /\ \A v \in 0..(PushN - 1) :
                    Cardinality({n \in 1..Len(sret[t].val) : sret[t].val[n] = v}) = 1

\* Both reads have returned, and the pushes went to every segment.
C16_Witness ==
    /\ spc[1] = "idle"
    /\ sret[1].kind = "visited"
    /\ cached_ = PushN
    /\ \A s \in Stripes : segments_[s] # <<>>

\* C17: one thread alone, after N push_back calls on the striped array:
\* size() returns N, get(i) succeeds for every i < N, and i -> get(i) is a
\* bijection from 0..N-1 onto the pushed values.
C17_Sequential ==
    spc[1] = "idle" =>
        /\ sret[1].kind = "size" => sret[1].val = <<counter_>>
        /\ SizeNow = counter_
        /\ (scall[1].op = "get" /\ sret[1] # NoResult) => sret[1] = GetNow(scall[1].i)
        /\ \A i \in 0..(counter_ - 1) : GetNow(i).kind = "value"
        /\ \A v \in 0..(counter_ - 1) :
              Cardinality({i \in 0..(counter_ - 1) : GetNow(i) = Result("value", <<v>>)}) = 1

\* MaxLen values were pushed, more than one into one segment, and the last
\* get returned the element of the last index, which is not the last value
\* pushed.
C17_Witness ==
    /\ spc[1] = "idle"
    /\ counter_ = MaxLen
    /\ scall[1].op = "get"
    /\ scall[1].i = MaxLen - 1
    /\ sret[1].kind = "value"
    /\ sret[1].val # <<MaxLen - 1>>

\* C20: on a quiescent striped array get(i) returns the i-th element of the
\* concatenation of the segments in stripe-index order, the owning segment
\* being the only one whose prefix-sum interval contains i (empty segments
\* included), and it fails with OutOfRange exactly when i is not below the
\* sum of the segment counts.
C20_Resolution ==
    /\ spc[1] \in {"get_lock", "get_read"} =>
          LET c == scall[1]
              Before(s) == SumSeq(SubSeq(CountsNow, 1, s))
          IN  /\ Before(c.seg) <= c.i
              /\ c.i < Before(c.seg) + counts_[c.seg]
              /\ c.off = c.i - Before(c.seg)
              /\ \A s \in Stripes \ {c.seg} :
                    ~(Before(s) <= c.i /\ c.i < Before(s) + counts_[s])
    /\ (spc[1] = "idle" /\ scall[1].op = "get" /\ sret[1] # NoResult) =>
          /\ sret[1] = IF scall[1].i < Len(Logical)
                          THEN Result("value", <<Logical[scall[1].i + 1]>>)
                          ELSE OutOfRange
          /\ sret[1] = OutOfRange <=> scall[1].i >= SumSeq(CountsNow)

\* get(i) returned the element of an index whose segment has an empty
\* segment before it and is not the last place of the array.
C20_Witness ==
    /\ spc[1] = "idle"
    /\ scall[1].op = "get"
    /\ sret[1].kind = "value"
    /\ segments_[0] = <<>>
    /\ scall[1].i + 1 < Len(Logical)

\* C19: with writers that only append, a get(i) whose snapshot of the counts
\* sums to more than i resolves to an offset below the length its segment
\* has while get holds the segment's shared lock, so its read does not fail
\* with OutOfRange, and what it returns is an element of the array.
C19_AppendOnly ==
    \A t \in ArrThreads :
        /\ spc[t] \in {"get_lock", "get_read"} =>
              /\ SumSeq(scall[t].snap) > scall[t].i
              /\ scall[t].off < counts_[scall[t].seg]
              /\ scall[t].off < Len(segments_[scall[t].seg])
        /\ spc[t] = "get_read" =>
              /\ stripes_[StripeOf(scall[t].seg)].r >= 1
              /\ ~HasWriter(stripes_[StripeOf(scall[t].seg)])
        /\ (spc[t] = "idle" /\ sret[t].kind = "value") =>
              \E n \in 1..Len(Logical) : Logical[n] = sret[t].val[1]

\* A get holds the shared lock of a segment that another thread's append
\* made longer after get had read the segment's count.
C19_Witness ==
    \E t \in ArrThreads :
        /\ spc[t] = "get_read"
        /\ scall[t].snap[scall[t].seg + 1] < Len(segments_[scall[t].seg])

\* C18: in every quiescent state of the striped array size() returns the
\* exact sum of the segment element counts, whatever interleaving of
\* push_back, insert_range, clear and size() calls led to the state.
C18_CachedSizeExact ==
    Quiescent => SizeNow = SumSeq(CountsNow)

\* C24: for properly paired calls the state word of SpinSharedMutex is
\* always 0 (free), exactly WRITER_MASK (one exclusive holder, reader count
\* 0), or a reader count 1..READER_MASK equal to the number of threads that
\* hold shared; the writer bit is never set together with a reader count.
C24_StateEncoding ==
    LET Excl == {t \in LockThreads : HoldsExclusive(t)}
        Shrd == {t \in LockThreads : HoldsShared(t)}
    IN  /\ state_.w \in {0, 1}
        /\ state_.r \in 0..READER_MASK
        /\ HasWriter(state_) => (state_ = WRITER_MASK /\ Cardinality(Excl) = 1 /\ Shrd = {})
        /\ ~HasWriter(state_) => (state_.r = Cardinality(Shrd) /\ Excl = {})
        /\ (Excl = {} /\ Shrd = {}) => state_ = Zero

\* Two threads hold shared (the word is 2) while a third one is at the
\* compare-exchange of try_lock_shared with an older value of the word.
C24_Witness ==
    /\ state_ = Word(0, 2)
    /\ \E t \in LockThreads : lpc[t] = "tls_cas" /\ lcur[t] # state_

\* C26: stripe(i) is the (i mod NumStripes)-th lock: the locks taken for i
\* and j are the same lock exactly when i and j are congruent modulo
\* NumStripes (so two threads hold their stripes together only for
\* incongruent indices), stripes() is NumStripes at all times and is the
\* number of locks, and stripe_index(key) is below NumStripes.
C26_Stripe ==
    /\ Cardinality(DOMAIN stripes_) = NumStripes
    /\ \A t \in ArrThreads :
          /\ scall[t].op = "stripe" =>
                /\ scall[t].seg \in DOMAIN stripes_
                /\ \E q \in 0..MaxIndex : scall[t].i = q * NumStripes + scall[t].seg
          /\ sret[t].kind = "index" =>
                /\ sret[t].val[1] < NumStripes
                /\ sret[t].val[2] = NumStripes
    /\ \A t, u \in ArrThreads :
          (scall[t].op = "stripe" /\ scall[u].op = "stripe") =>
              /\ (scall[t].seg = scall[u].seg) <=>
                    (\E q \in -MaxIndex..MaxIndex :
                        scall[t].i - scall[u].i = q * NumStripes)
              /\ (t # u /\ spc[t] = "stripe_held" /\ spc[u] = "stripe_held") =>
                    scall[t].seg # scall[u].seg

\* One thread holds stripe(i) for an index beyond NumStripes while another
\* thread waits for the same lock under a different, congruent index.
C26_Witness ==
    \E t, u \in ArrThreads :
        /\ spc[t] = "stripe_held"
        /\ spc[u] = "stripe_lock"
        /\ scall[t].i >= NumStripes
        /\ scall[t].i # scall[u].i
        /\ scall[t].seg = scall[u].seg

\* C27: with NullSharedMutex no acquire or release does anything and the
\* try variants succeed, so try_push_back and try_emplace_back never return
\* false and each appends exactly its one element to the array as it is,
\* whatever other calls are in progress.
C27_NullTry ==
    /\ []NullNoOp
    /\ [][\A t \in ArrThreads :
            TryWrites(t) => data_'[1] = Append(data_[1], acall[t].v[1])]_vars

\* C27 as amended: with NullSharedMutex no acquire or release does anything
\* and the try variants succeed, so try_push_back and try_emplace_back never
\* return false; a call during which no other call on the array is in
\* progress appends exactly its one element.
C27_NullTryAlone ==
    /\ []NullNoOp
    /\ [][\A t \in ArrThreads :
            (TryWrites(t) /\ acall[t].j = 0) =>
                data_'[1] = Append(data_[1], acall[t].v[1])]_vars
    /\ [](\A t \in ArrThreads :
            (Leaving(t, "try_push_back") \/ Leaving(t, "try_emplace_back")) =>
                (acall[t].j = 0 => data_[1] = Append(pre[t], acall[t].v[1])))

\* A try_emplace_back that ran with no other call in progress is returning
\* true, on an array that other calls had filled before.
C27_Witness ==
    \E t \in ArrThreads :
        /\ Leaving(t, "try_emplace_back")
        /\ acall[t].j = 0
        /\ aret[t] = Bool(TRUE)
        /\ Len(data_[1]) >= 2
        /\ \E n \in 1..Len(data_[1]) : data_[1][n] # t

\* C22: for every segment s of the striped array, whenever no thread holds
\* the exclusive lock of s the atomic count of s is the number of elements
\* stored in s; and a step changes the count of s only if it is a step of
\* the thread that holds the exclusive lock of s.
C22_CountInvariant ==
    /\ [](\A s \in Stripes :
            (\A t \in ArrThreads : ~HoldsStripe(t, s)) =>
                (stripes_[s] = Zero /\ counts_[s] = Len(segments_[s])))
    /\ [](\A s \in Stripes :
            Cardinality({t \in ArrThreads : HoldsStripe(t, s)}) <= 1)
    /\ [][\A s \in Stripes :
            counts_'[s] # counts_[s] =>
                \E t \in ArrThreads :
                    /\ HoldsStripe(t, s)
                    /\ stripes_[s] = WRITER_MASK
                    /\ <<spc[t], scall[t]>> # <<spc'[t], scall'[t]>>]_vars

\* A writer that holds a segment's lock has put its elements in but not yet
\* counted them, while another segment, unlocked, holds counted elements.
C22_Witness ==
    \E t \in ArrThreads, s \in Stripes :
        /\ spc[t] = "count"
        /\ scall[t].op = "insert_range"
        /\ counts_[scall[t].seg] < Len(segments_[scall[t].seg])
        /\ s # scall[t].seg
        /\ stripes_[s] = Zero
        /\ counts_[s] > 0

\* C21: clear() takes the segment locks in ascending order, so concurrent
\* clear, push_back and get calls never deadlock: a thread that cannot go on
\* waits for a lock, each holder of that lock can go on or waits for a lock
\* of a higher segment, and so some thread inside a call can always take a
\* step (every call is a bounded number of steps, so the calls return).
\* When a clear has done its work, no writer being able to run beside it,
\* every segment is empty, every count is 0 and size() returns 0.
C21_Clear ==
    /\ ~Quiescent => \E t \in ArrThreads : ENABLED ClearStep(t)
    /\ \A t \in ArrThreads :
          Blocked(t) =>
              /\ spc[t] \in {"wlock", "clear_lock", "get_lock"}
              /\ \E u \in ArrThreads \ {t} : HoldsLock(u, WaitsFor(t))
              /\ \A u \in ArrThreads \ {t} :
                    (HoldsLock(u, WaitsFor(t)) /\ Blocked(u)) => WaitsFor(u) > WaitsFor(t)
    /\ \A t \in ArrThreads :
          spc[t] = "clear_unlock" =>
              /\ \A s \in Stripes :
                    /\ stripes_[s] = WRITER_MASK
                    /\ segments_[s] = <<>>
                    /\ counts_[s] = 0
              /\ \A u \in ArrThreads \ {t} : \A s \in Stripes : ~HoldsLock(u, s)
              /\ SizeNow = 0

\* A clear that holds the lock of segment 0 and waits for the lock of
\* segment 1, which a push_back holds with its element already written.
C21_Witness ==
    \E t, u \in ArrThreads :
        /\ spc[t] = "clear_lock" /\ scall[t].k = 1 /\ Blocked(t)
        /\ spc[u] = "count" /\ scall[u].seg = 1
        /\ segments_[1] # <<>>


\* C25: try_lock_shared() returns false only if an exclusive holder held the
\* lock at some instant during the call; with no thread ever asking for
\* exclusive access, the only activity being threads that take and release
\* shared access, no try_lock_shared() returns false.
C25_TrySharedTrue ==
    /\ ~HasWriter(state_)
    /\ \A t \in LockThreads : lpc[t] # "held_x" /\ lret[t] # "false"

\* C23: when the threads perform finitely many acquisitions and release
\* what they acquire, under fair scheduling every lock() and lock_shared()
\* returns and is released, so in the end no thread is inside a call; and a
\* thread waits only while the lock is held in a mode incompatible with its
\* request: lock() stays in its spin loop only while state_ is not 0,
\* lock_shared() enters or stays in its wait loop only while the writer bit
\* is set, a word that is not 0 has a holder, a writer bit has an exclusive
\* holder, and a CAS that finds the expected value can succeed.
C23_Progress ==
    /\ <>[](\A t \in LockThreads : lpc[t] = "idle")
    /\ [](\A t \in LockThreads :
            /\ (lpc[t] = "lock_cas" /\ state_ = Zero) => ENABLED LockCasOk(t)
            /\ (lpc[t] = "ls_cas" /\ state_ = lcur[t]) => ENABLED LockSharedCasOk(t)
            /\ lpc[t] = "ls_cas" => ~HasWriter(lcur[t])
            /\ lpc[t] = "ls_wait" => HasWriter(lcur[t]))
    /\ [](/\ state_ # Zero => \E u \in LockThreads : lpc[u] \in {"held_x", "held_s"}
          /\ HasWriter(state_) => \E u \in LockThreads : lpc[u] = "held_x")
    /\ [][\A t \in LockThreads :
            /\ (LockSpin(t) /\ lpc'[t] = "lock_spin") => state_ # Zero
            /\ (/\ LockSharedLoad(t) \/ LockSharedWait(t) \/ LockSharedCas(t)
                /\ lpc'[t] = "ls_wait") => HasWriter(state_)]_vars

\* A lock() that has gone round its spin loop while a reader holds the lock,
\* or a lock_shared() in its wait loop while a writer holds it.
C23_Witness ==
    \E t, u \in LockThreads :
        \/ lpc[t] = "lock_spin" /\ lspin[t] > 0 /\ lpc[u] = "held_s"
        \/ lpc[t] = "ls_wait" /\ lpc[u] = "held_x"

====
